---- MODULE Spec2Model ----
(***************************************************************************)
(* Ingestion / re-embedding / deletion / deduplication of movie records    *)
(* against a record store (MongoDB), an ingestion-job collection and a     *)
(* vector index.  Every await of the TypeScript code is a step of its own, *)
(* so calls interleave as the Node event loop lets them.                   *)
(***************************************************************************)
EXTENDS Integers, Sequences, FiniteSets, TLC

\* ------------------------------------------------------------------ bounds
MaxMovies == 2      \* ingest calls (each creates one record)
MaxUpdates == 1     \* update calls (each spawns one background re-embedding)
MaxNeighbors == 3    \* neighbours in one reply of the vector store
MaxInFlight == 1    \* ingest calls and background re-embeddings running at the same time
MaxTokens == 2      \* token rows in one output of the embedding model
MaxCatalog == 3     \* records in the catalog dedupeMovies runs on
MaxCallers == 2     \* calls of initializeLocalPipeline running at the same time
MaxCalls == 4       \* calls of initializeLocalPipeline in all
MaxBackfill == 2    \* records in the catalog backfillMissingPosters runs on
MaxImport == 2      \* entries of movies.json
MaxSuccessive == 2  \* updates of one record issued in succession

\* --------------------------------------------------------------- constants
Sources == {"title", "plot", "genre"}
Backends == {"qdrant", "pinecone", "chroma"}
\* env.VECTOR_DIMENSION, set through the environment (384 when unset)
VectorDimension == 2
\* generateHuggingFaceEmbedding(text, retries = 3)
DefaultRetries == 3
NoMessage == "undefined"
ModelName == "sentence-transformers/all-MiniLM-L6-v2"   \* env.EMBEDDING_MODEL
JobSaveError == "job save failed"
JobCreateError == "job create failed"

\* ------------------------------------------------------------ text helpers
\* Strings are sequences of one-character strings.
IsSpace(c) == c = " "

RECURSIVE TrimLeft(_)
TrimLeft(s) ==
  IF s # <<>> /\ IsSpace(Head(s)) THEN TrimLeft(Tail(s)) ELSE s

RECURSIVE TrimRight(_)
TrimRight(s) ==
  IF s # <<>> /\ IsSpace(s[Len(s)]) THEN TrimRight(SubSeq(s, 1, Len(s) - 1)) ELSE s

Trim(s) == TrimRight(TrimLeft(s))

\* replace(/\s+/g, ' ')
RECURSIVE CollapseSpaces(_)
CollapseSpaces(s) ==
  IF s = <<>> THEN <<>>
  ELSE IF IsSpace(Head(s)) THEN <<" ">> \o CollapseSpaces(TrimLeft(s))
  ELSE <<Head(s)>> \o CollapseSpaces(Tail(s))

LowerChar(c) ==
  CASE c = "M" -> "m"
    [] c = "U" -> "u"
    [] OTHER -> c

ToLowerCase(s) == [i \in 1..Len(s) |-> LowerChar(s[i])]

normalizeTitle(title) == ToLowerCase(CollapseSpaces(Trim(title)))

\* Array.prototype.join(', ')
RECURSIVE JoinGenres(_)
JoinGenres(gs) ==
  IF gs = <<>> THEN <<>>
  ELSE IF Len(gs) = 1 THEN gs[1]
  ELSE gs[1] \o <<",", " ">> \o JoinGenres(Tail(gs))

\* ---------------------------------------------------------- object helpers
Has(obj, f) == f \in DOMAIN obj

\* { ...a, ...b }
Spread(a, b) ==
  [f \in DOMAIN a \cup DOMAIN b |-> IF f \in DOMAIN b THEN b[f] ELSE a[f]]

EmptyObject == [f \in {} |-> 0]

\* ------------------------------------------------------------------- state
VARIABLES
  movies,     \* MovieModel collection: _id -> document
  nextId,     \* next ObjectId handed out by MovieModel.create
  jobs,       \* IngestionJobModel collection: sequence of job documents
  index,      \* vector collection: point id -> [movieId, source, vector]
  ingests,    \* ingest calls in flight, by the _id of the record they created
  regens,     \* regenerateMovieEmbeddings tasks in flight, by update number
  updates,    \* number of update calls so far
  backend,    \* env.VECTOR_DB_PROVIDER, read once at process start
  acks,       \* what each updateMovie call returned, by update number
  search,     \* the search request being served
  embed,      \* the generateEmbedding call being evaluated
  pipeline,   \* localPipeline, pipelineModel, pipelineModule and the callers of initializeLocalPipeline
  backfill,   \* the backfillMissingPosters run in progress
  server      \* the startServer run of the process

vars == <<movies, nextId, jobs, index, ingests, regens, updates,
          backend, acks, search, embed, pipeline, backfill, server>>

\* ------------------------------------------------ embedding generation
\* `${movieId}:${source}`
PointId(movieId, source) == <<movieId, source>>

\* The vector is a function of the text alone.
Embed(text) == <<"vec", text>>

IsPresent(payload, source) ==
  CASE source = "title" ->
         Has(payload, "title") /\ payload.title # <<>> /\ Trim(payload.title) # <<>>
    [] source = "plot" ->
         Has(payload, "plot") /\ payload.plot # <<>> /\ Trim(payload.plot) # <<>>
    [] source = "genre" ->
         Has(payload, "genres") /\ Len(payload.genres) > 0

PresentSources(payload) == {s \in Sources : IsPresent(payload, s)}

SourceText(payload, source) ==
  CASE source = "title" -> payload.title
    [] source = "plot" -> payload.plot
    [] source = "genre" -> JoinGenres(payload.genres)

\* mutant: the first failing source aborts the generation of all of them
generateMovieEmbeddingsAborting(payload, failing) ==
  IF failing # {} THEN EmptyObject
  ELSE [s \in PresentSources(payload) |-> Embed(SourceText(payload, s))]

\* failing: the sources whose generateEmbedding call throws
generateMovieEmbeddings(payload, failing) ==
  [s \in PresentSources(payload) \ failing |-> Embed(SourceText(payload, s))]

\* ------------------------------------------------------------ vector store
\* mutant: the returned id is built as `${movieId}:${source}:${source}`
UpsertKeysOtherFormat(movieId, embeddings) ==
  [s \in DOMAIN embeddings |-> <<movieId, s, s>>]

\* mutant: a key is returned for every configured source
UpsertKeysAllSources(movieId, embeddings) ==
  [s \in Sources |-> PointId(movieId, s)]

\* the keys upsertMovieEmbeddings returns: source -> point id
UpsertKeys(movieId, embeddings) ==
  [s \in DOMAIN embeddings |-> PointId(movieId, s)]

\* the collection after a call that the backend accepted, one point per source:
\* client.upsert (Qdrant) and index.upsert (Pinecone) replace the point stored
\* under an id; POST .../add (Chroma) stores new ids and leaves the point of
\* an id that is already there as it was
UpsertPoints(provider, idx, movieId, embeddings) ==
  LET new == {PointId(movieId, s) : s \in DOMAIN embeddings}
      kept == IF provider = "chroma" THEN DOMAIN idx ELSE DOMAIN idx \ new
  IN [p \in DOMAIN idx \cup new |->
        IF p \in kept
        THEN idx[p]
        ELSE [movieId |-> movieId, source |-> p[2], vector |-> embeddings[p[2]]]]

\* ------------------------------------------------------------ record store
\* MovieModel.create({...payload, genres: payload.genres ?? []}); the schema
\* trims the title and gives embeddingKeys its empty default.
createMovie(payload, id, posterId) ==
  LET base == Spread(payload,
                     [title |-> Trim(payload.title),
                      genres |-> IF Has(payload, "genres") THEN payload.genres ELSE <<>>,
                      createdAt |-> id,
                      embeddingKeys |-> EmptyObject])
  IN IF posterId = 0 THEN base
     ELSE Spread(base, [posterGridFSId |-> posterId])

\* findByIdAndUpdate(movieId, {$set: {embeddingKeys}}); null when absent
updateMovieEmbeddingKeys(store, movieId, embeddingKeys) ==
  IF movieId \in DOMAIN store
  THEN [store EXCEPT ![movieId] = Spread(@, [embeddingKeys |-> embeddingKeys])]
  ELSE store

\* findByIdAndUpdate(id, {$set: payload}, {new: true})
SetFields(doc, payload) ==
  LET cast == IF Has(payload, "title")
              THEN Spread(payload, [title |-> Trim(payload.title)])
              ELSE payload
  IN Spread(doc, cast)

Remove(store, ids) == [i \in DOMAIN store \ ids |-> store[i]]

\* no request of that kind is being served
Idle == [pc |-> "idle"]

\* the module variables of embeddingService.ts at process start (loads: how
\* many pipelines were loaded so far, calls: how many calls were made)
NoPipeline ==
  [localPipeline |-> FALSE, pipelineModel |-> "null", pipelineModule |-> FALSE,
   loads |-> 0, calls |-> 0, callers |-> EmptyObject]

\* ------------------------------------------------------------------- Init
Init ==
  /\ movies = EmptyObject
  /\ nextId = 1
  /\ jobs = <<>>
  /\ index = EmptyObject
  /\ ingests = EmptyObject
  /\ regens = EmptyObject
  /\ updates = 0
  /\ backend \in Backends
  /\ acks = EmptyObject
  /\ search = Idle
  /\ embed = Idle
  /\ pipeline = NoPipeline
  /\ backfill = Idle
  /\ server = Idle

\* ----------------------------------------------------------------- ingest
\* The bookkeeping of one ingestMovie / ingestMovieWithImage call.
NewIngest(payload) ==
  [pc |-> "jobCreate", payload |-> payload, jobId |-> 0,
   failing |-> {}, embeddings |-> EmptyObject,
   upsert |-> "none", keysWrite |-> "none",
   error |-> NoMessage, failSave |-> "none", result |-> "pending"]

\* mutant: the catch block forgets the error message
JobMarkFailedNoMessage(job, message) == [job EXCEPT !.status = "failed"]

\* the outer catch: job.status = 'failed'; job.errorMessage = error.message
JobMarkFailed(job, message) ==
  [job EXCEPT !.status = "failed", !.errorMessage = message]

\* mutant: the status assignment is missing before job.save()
JobLeftProcessing(job) == job

\* job.status = 'completed'
JobMarkCompleted(job) == [job EXCEPT !.status = "completed"]

\* mutant: the upsert has a catch of its own and the keys are written anyway
AfterUpsertFailureWritesKeys(call) == [call EXCEPT !.upsert = "failed", !.pc = "keys"]

\* mutant: the inner catch rethrows into the outer one
AfterKeysFailureRethrows(call) ==
  [call EXCEPT !.keysWrite = "failed", !.error = "keys write failed", !.pc = "jobFail"]

\* the inner catch around upsert + updateMovieEmbeddingKeys only logs
AfterUpsertFailure(call) == [call EXCEPT !.upsert = "failed", !.pc = "jobSave"]

\* the same catch, reached from updateMovieEmbeddingKeys
AfterKeysFailure(call) == [call EXCEPT !.keysWrite = "failed", !.pc = "jobSave"]

\* createMovie / createMovieWithImage: the record is saved first.  With an
\* image the GridFS upload may fail; the record is then saved without poster.
IngestStart(payload, image, uploadOk) ==
  /\ nextId <= MaxMovies
  /\ Cardinality(DOMAIN ingests) + Cardinality(DOMAIN regens) < MaxInFlight
  /\ LET id == nextId
         posterId == IF image /\ uploadOk THEN id ELSE 0
     IN /\ movies' = Spread(movies, [i \in {id} |-> createMovie(payload, id, posterId)])
        /\ ingests' = Spread(ingests, [i \in {id} |-> NewIngest(payload)])
  /\ nextId' = nextId + 1
  /\ UNCHANGED <<jobs, index, regens, updates, backend, acks, search, embed,
                 pipeline, backfill, server>>

\* IngestionJobModel.create({movieId, status: 'processing'}); a rejection
\* is outside the try block and reaches the handler.
IngestJobCreate(id, ok) ==
  /\ id \in DOMAIN ingests
  /\ ingests[id].pc = "jobCreate"
  /\ IF ok
     THEN /\ jobs' = Append(jobs, [movieId |-> id, status |-> "processing",
                                   errorMessage |-> NoMessage])
          /\ ingests' = [ingests EXCEPT ![id].pc = "generate",
                                        ![id].jobId = Len(jobs) + 1]
     ELSE /\ jobs' = jobs
          /\ ingests' = [ingests EXCEPT ![id].pc = "done",
                                        ![id].error = JobCreateError,
                                        ![id].result = "error"]
  /\ UNCHANGED <<movies, nextId, index, regens, updates, backend, acks, search, embed,
                 pipeline, backfill, server>>

\* generateMovieEmbeddings(payload): one generateEmbedding call per present
\* source, each in its own try/catch.
IngestGenerate(id, failing) ==
  /\ id \in DOMAIN ingests
  /\ ingests[id].pc = "generate"
  /\ failing \subseteq PresentSources(ingests[id].payload)
  /\ LET embeddings == generateMovieEmbeddings(ingests[id].payload, failing)
     IN ingests' = [ingests EXCEPT
          ![id].failing = failing,
          ![id].embeddings = embeddings,
          ![id].pc = IF DOMAIN embeddings # {} THEN "upsert" ELSE "jobSave"]
  /\ UNCHANGED <<movies, nextId, jobs, index, regens, updates, backend, acks, search, embed,
                 pipeline, backfill, server>>

\* upsertMovieEmbeddings(String(movie._id), embeddings)
IngestUpsert(id, ok) ==
  /\ id \in DOMAIN ingests
  /\ ingests[id].pc = "upsert"
  /\ IF ok
     THEN /\ index' = UpsertPoints(backend, index, id, ingests[id].embeddings)
          /\ ingests' = [ingests EXCEPT
               ![id].upsert = "ok",
               ![id].pc = "keys"]
     ELSE /\ index' = index
          /\ ingests' = [ingests EXCEPT ![id] = AfterUpsertFailure(@)]
  /\ UNCHANGED <<movies, nextId, jobs, regens, updates, backend, acks, search, embed,
                 pipeline, backfill, server>>

\* updateMovieEmbeddingKeys(movie._id, embeddingKeys)
IngestKeys(id, ok) ==
  /\ id \in DOMAIN ingests
  /\ ingests[id].pc = "keys"
  /\ IF ok
     THEN /\ movies' = updateMovieEmbeddingKeys(movies, id,
                                               UpsertKeys(id, ingests[id].embeddings))
          /\ ingests' = [ingests EXCEPT ![id].keysWrite = "ok", ![id].pc = "jobSave"]
     ELSE /\ movies' = movies
          /\ ingests' = [ingests EXCEPT ![id] = AfterKeysFailure(@)]
  /\ UNCHANGED <<nextId, jobs, index, regens, updates, backend, acks, search, embed,
                 pipeline, backfill, server>>

\* job.status = 'completed'; await job.save(); the handler then answers 202
IngestJobSave(id, ok) ==
  /\ id \in DOMAIN ingests
  /\ ingests[id].pc = "jobSave"
  /\ IF ok
     THEN /\ jobs' = [jobs EXCEPT ![ingests[id].jobId] = JobMarkCompleted(@)]
          /\ ingests' = [ingests EXCEPT ![id].pc = "done", ![id].result = "accepted"]
     ELSE /\ jobs' = jobs
          /\ ingests' = [ingests EXCEPT ![id].error = JobSaveError, ![id].pc = "jobFail"]
  /\ UNCHANGED <<movies, nextId, index, regens, updates, backend, acks, search, embed,
                 pipeline, backfill, server>>

\* catch: job.status = 'failed'; errorMessage; await job.save(); throw error
IngestJobFail(id, ok) ==
  /\ id \in DOMAIN ingests
  /\ ingests[id].pc = "jobFail"
  /\ jobs' = IF ok
             THEN [jobs EXCEPT ![ingests[id].jobId] = JobMarkFailed(@, ingests[id].error)]
             ELSE jobs
  /\ ingests' = [ingests EXCEPT ![id].failSave = IF ok THEN "ok" ELSE "failed",
                                ![id].pc = "done",
                                ![id].result = "error"]
  /\ UNCHANGED <<movies, nextId, index, regens, updates, backend, acks, search, embed,
                 pipeline, backfill, server>>

\* the handler has answered (202 after a return, the error middleware after a
\* throw); the call and its locals are gone
IngestEnd(id) ==
  /\ id \in DOMAIN ingests
  /\ ingests[id].pc = "done"
  /\ ingests' = Remove(ingests, {id})
  /\ UNCHANGED <<movies, nextId, jobs, index, regens, updates, backend, acks, search, embed,
                 pipeline, backfill, server>>

\* ----------------------------------------------------------------- update
\* the fields an embedding is computed from
EmbeddableFields == {"title", "plot", "genres"}

\* did $set: payload change the value of an embeddable field of the record?
SourceChanged(before, after) ==
  \E f \in EmbeddableFields :
    \/ Has(before, f) # Has(after, f)
    \/ Has(before, f) /\ Has(after, f) /\ before[f] # after[f]

\* { title, plot, genres, metadata of the updated record, ...payload }
EmbeddingPayload(updatedMovie, payload) ==
  LET fromRecord == [f \in EmbeddableFields \cap DOMAIN updatedMovie |-> updatedMovie[f]]
  IN Spread(fromRecord, payload)

\* regenerateMovieEmbeddings: "any embedding-relevant fields are present"
hasEmbeddingFields(updatedMovieData) == PresentSources(updatedMovieData) # {}

NewRegen(movieId, embeddingPayload, changed) ==
  [pc |-> "lookup", movieId |-> movieId, payload |-> embeddingPayload,
   srcChanged |-> changed, embeddings |-> EmptyObject]

\* what updateMovie returns for an existing record, and the handler sends
UpdateAck(updatedMovie) == [status |-> "ok", movie |-> updatedMovie]

\* mutant: updateMovie awaits the re-embedding and raises its failure
RegenSettledAwaited(ack, failed) ==
  IF failed THEN [ack EXCEPT !.status = "error"] ELSE ack

\* regenerateMovieEmbeddings has ended: its own catch logs and swallows, the
\* caller attached .catch and did not await; the value returned is not touched
RegenSettled(ack, failed) == ack

\* updateMovie(id, payload) on an existing record: the record is updated and
\* returned; regenerateMovieEmbeddings is started and not awaited.
UpdateMovieCall(id, payload) ==
  /\ id \in DOMAIN movies
  /\ updates' = updates + 1
  /\ LET updatedMovie == SetFields(movies[id], payload)
     IN /\ movies' = [movies EXCEPT ![id] = updatedMovie]
        /\ regens' = Spread(regens, [t \in {updates + 1} |->
                            NewRegen(id, EmbeddingPayload(updatedMovie, payload),
                                     SourceChanged(movies[id], updatedMovie))])
        /\ acks' = Spread(acks, [t \in {updates + 1} |-> UpdateAck(updatedMovie)])
  /\ UNCHANGED <<nextId, jobs, index, ingests, backend, search, embed,
                 pipeline, backfill, server>>

\* an update call, within the bounds of the catalog model
UpdateMovie(id, payload) ==
  /\ updates < MaxUpdates
  /\ Cardinality(DOMAIN ingests) + Cardinality(DOMAIN regens) < MaxInFlight
  /\ UpdateMovieCall(id, payload)

\* getMovieById, then the hasEmbeddingFields test.  A task that ends (return,
\* or throw into the logging catch) is gone: nobody awaits it.
RegenLookup(t) ==
  /\ t \in DOMAIN regens
  /\ regens[t].pc = "lookup"
  /\ regens' =
       IF regens[t].movieId \notin DOMAIN movies
       THEN Remove(regens, {t})
       ELSE IF ~hasEmbeddingFields(regens[t].payload)
       THEN Remove(regens, {t})
       ELSE [regens EXCEPT ![t].pc = "generate"]
  /\ acks' = IF t \in DOMAIN regens'
            THEN acks
            ELSE [acks EXCEPT ![t] =
                    RegenSettled(@, regens[t].movieId \notin DOMAIN movies)]
  /\ UNCHANGED <<movies, nextId, jobs, index, ingests, updates, backend, search, embed,
                 pipeline, backfill, server>>

\* generateMovieEmbeddings(updatedMovieData)
RegenGenerate(t, failing) ==
  /\ t \in DOMAIN regens
  /\ regens[t].pc = "generate"
  /\ failing \subseteq PresentSources(regens[t].payload)
  /\ LET embeddings == generateMovieEmbeddings(regens[t].payload, failing)
     IN regens' =
          IF DOMAIN embeddings # {}
          THEN [regens EXCEPT ![t].embeddings = embeddings, ![t].pc = "upsert"]
          ELSE Remove(regens, {t})
  /\ acks' = IF t \in DOMAIN regens'
            THEN acks
            ELSE [acks EXCEPT ![t] = RegenSettled(@, FALSE)]
  /\ UNCHANGED <<movies, nextId, jobs, index, ingests, updates, backend, search, embed,
                 pipeline, backfill, server>>

\* upsertMovieEmbeddings(movieId, embeddings); a rejection is caught and logged
RegenUpsert(t, ok) ==
  /\ t \in DOMAIN regens
  /\ regens[t].pc = "upsert"
  /\ IF ok
     THEN /\ index' = UpsertPoints(backend, index, regens[t].movieId, regens[t].embeddings)
          /\ regens' = [regens EXCEPT ![t].pc = "keys"]
          /\ acks' = acks
     ELSE /\ index' = index
          /\ regens' = Remove(regens, {t})
          /\ acks' = [acks EXCEPT ![t] = RegenSettled(@, TRUE)]
  /\ UNCHANGED <<movies, nextId, jobs, ingests, updates, backend, search, embed,
                 pipeline, backfill, server>>

\* updateMovieEmbeddingKeys(movie._id, embeddingKeys)
RegenKeys(t, ok) ==
  /\ t \in DOMAIN regens
  /\ regens[t].pc = "keys"
  /\ movies' = IF ok
               THEN updateMovieEmbeddingKeys(movies, regens[t].movieId,
                      UpsertKeys(regens[t].movieId, regens[t].embeddings))
               ELSE movies
  /\ regens' = Remove(regens, {t})
  /\ acks' = [acks EXCEPT ![t] = RegenSettled(@, ~ok)]
  /\ UNCHANGED <<nextId, jobs, index, ingests, updates, backend, search, embed,
                 pipeline, backfill, server>>

\* ----------------------------------------------------------------- delete
\* the records deleteMovie removes from the store
DeleteTargets(id) == {id}

\* the vector collection after deleteMovie(id): it is not touched
IndexAfterDelete(idx, doc) == idx

\* deleteMovie(id) on an existing record: the GridFS image is deleted when
\* there is one (a failure is logged), then findByIdAndDelete.
DeleteMovie(id) ==
  /\ id \in DOMAIN movies
  /\ movies' = Remove(movies, DeleteTargets(id))
  /\ index' = IndexAfterDelete(index, movies[id])
  /\ UNCHANGED <<nextId, jobs, ingests, regens, updates, backend, acks, search, embed,
                 pipeline, backfill, server>>

\* ----------------------------------------------------------------- dedupe
\* the key built from the title as stored, without normalizeTitle
GroupKeyExactTitle(movie) ==
  <<movie.title,
    IF Has(movie, "releaseYear") /\ movie.releaseYear # 0
    THEN <<movie.releaseYear>> ELSE <<>> >>

\* `${normalizeTitle(movie.title)}::${movie.releaseYear || ''}`
GroupKey(movie) ==
  <<normalizeTitle(movie.title),
    IF Has(movie, "releaseYear") /\ movie.releaseYear # 0
    THEN <<movie.releaseYear>> ELSE <<>> >>

RatingOf(movie) == IF Has(movie, "rating") THEN movie.rating ELSE 0

HasPoster(movie) == Has(movie, "posterGridFSId")

PosterFlag(movie) == IF HasPoster(movie) THEN 1 ELSE 0

\* the comparator without the poster rule
CompareSurvivorNoPoster(a, b) ==
  IF RatingOf(a) # RatingOf(b) THEN RatingOf(b) - RatingOf(a)
  ELSE b.createdAt - a.createdAt

\* the sort comparator: negative when a sorts before b
CompareSurvivor(a, b) ==
  IF RatingOf(a) # RatingOf(b) THEN RatingOf(b) - RatingOf(a)
  ELSE IF PosterFlag(a) # PosterFlag(b) THEN PosterFlag(b) - PosterFlag(a)
  ELSE b.createdAt - a.createdAt

\* [...group].sort(cmp)[0]; the sort is stable and find() returns the records
\* in insertion (_id) order
Survivor(snapshot, group) ==
  CHOOSE a \in group : \A b \in group \ {a} :
    \/ CompareSurvivor(snapshot[a], snapshot[b]) < 0
    \/ CompareSurvivor(snapshot[a], snapshot[b]) = 0 /\ a < b

MinOf(S) == CHOOSE x \in S : \A y \in S : x <= y

\* for (const dup of group): move the poster reference, delete the duplicate.
\* survivor and dup are the lean objects read at the start.
RECURSIVE DedupeGroup(_, _, _, _)
DedupeGroup(store, snapshot, survivorId, dups) ==
  IF dups = {} THEN store
  ELSE LET dup == MinOf(dups)
           moved == IF /\ ~HasPoster(snapshot[survivorId])
                       /\ HasPoster(snapshot[dup])
                       /\ survivorId \in DOMAIN store
                    THEN [store EXCEPT ![survivorId] =
                            Spread(@, [posterGridFSId |-> snapshot[dup].posterGridFSId])]
                    ELSE store
       IN DedupeGroup(Remove(moved, {dup}), snapshot, survivorId, dups \ {dup})

\* for (const [, group] of groups)
RECURSIVE DedupeAll(_, _, _)
DedupeAll(store, snapshot, pending) ==
  IF pending = {} THEN store
  ELSE LET first == MinOf(pending)
           group == {i \in DOMAIN snapshot : GroupKey(snapshot[i]) = GroupKey(snapshot[first])}
       IN IF Cardinality(group) <= 1
          THEN DedupeAll(store, snapshot, pending \ group)
          ELSE DedupeAll(DedupeGroup(store, snapshot, Survivor(snapshot, group),
                                     group \ {Survivor(snapshot, group)}),
                         snapshot, pending \ group)

\* dedupeMovies()
DedupeMovies ==
  /\ movies' = DedupeAll(movies, movies, DOMAIN movies)
  /\ movies' # movies
  /\ UNCHANGED <<nextId, jobs, index, ingests, regens, updates, backend, acks, search, embed,
                 pipeline, backfill, server>>

\* ------------------------------------------------------------ vector query
\* similarity scores a backend reports, in hundredths
Scores == {80, 90, 95}

\* replies of at most n neighbours: distinct points of the collection, each
\* with its payload and a reported value (Qdrant and Pinecone report the
\* score, Chroma the distance)
NeighborLists(provider, idx, n) ==
  LET raw == IF provider = "chroma" THEN {100 - s : s \in Scores} ELSE Scores
  IN {ns \in UNION {[1..len -> (DOMAIN idx) \X raw] : len \in 0..n} :
        \A i, j \in 1..Len(ns) : i # j => ns[i][1] # ns[j][1]}

Found(matches) == [status |-> "ok", matches |-> matches]

Thrown == [status |-> "error", matches |-> <<>>]

\* point.score ?? 0 (Qdrant), match.score ?? 0 (Pinecone),
\* 1 - (distances[idx] || 0) (Chroma)
MatchScore(provider, value) ==
  IF provider = "chroma" THEN 100 - value ELSE value

ToMatches(provider, idx, neighbors) ==
  [i \in 1..Len(neighbors) |->
     [id |-> neighbors[i][1],
      score |-> MatchScore(provider, neighbors[i][2]),
      payload |-> [movieId |-> idx[neighbors[i][1]].movieId,
                   source |-> idx[neighbors[i][1]].source]]]

\* semanticSearch(embedding, limit).  exists: the collection is there;
\* backendOk: the query call is answered; neighbors: the answer.
semanticSearch(provider, idx, exists, backendOk, neighbors) ==
  CASE provider = "qdrant" ->
         IF ~exists THEN Found(<<>>)                  \* getCollection rejects
         ELSE IF DOMAIN idx = {} THEN Found(<<>>)     \* points_count === 0
         ELSE IF ~backendOk THEN Found(<<>>)          \* catch: return []
         ELSE Found(ToMatches(provider, idx, neighbors))
    [] provider = "pinecone" ->
         IF ~exists \/ ~backendOk THEN Thrown         \* index.query rejects
         ELSE Found(ToMatches(provider, idx, neighbors))
    [] provider = "chroma" ->
         IF ~exists \/ ~backendOk THEN Thrown         \* axios.post rejects
         ELSE Found(ToMatches(provider, idx, neighbors))

\* -------------------------------------------------- searchMoviesByEmbedding
Take(seq, n) == SubSeq(seq, 1, IF n < Len(seq) THEN n ELSE Len(seq))

\* position of the record in the entries of movieScoreMap, 0 when absent
RECURSIVE EntryOf(_, _)
EntryOf(entries, movieId) ==
  IF entries = <<>> THEN 0
  ELSE IF entries[Len(entries)].movieId = movieId THEN Len(entries)
  ELSE EntryOf(SubSeq(entries, 1, Len(entries) - 1), movieId)

\* mutant: the first occurrence of a record is kept
ReplacesExistingNever(existing, match) == FALSE

\* !existing || match.score > existing.score, for an existing entry
ReplacesExisting(existing, match) == match.score > existing.score

\* every id a match names is taken for a record that was read
InMovieMapAlways(store, movieId) == TRUE

\* movieMap.get(movieId) of the records getMoviesByIds has read: find({_id:
\* {$in: ids}}) gives the records that are in the store
InMovieMap(store, movieId) == movieId \in DOMAIN store

\* matches.forEach: a Map keeps the position of a key that is set again
RECURSIVE MergeMatches(_, _, _)
MergeMatches(matches, store, entries) ==
  IF matches = <<>> THEN entries
  ELSE LET match == Head(matches)
           movieId == match.payload.movieId
           at == EntryOf(entries, movieId)
           entry == [movieId |-> movieId, score |-> match.score]
       IN IF ~InMovieMap(store, movieId)
          THEN MergeMatches(Tail(matches), store, entries)   \* logger.warn
          ELSE IF at = 0
          THEN MergeMatches(Tail(matches), store, Append(entries, entry))
          ELSE IF ReplacesExisting(entries[at], match)
          THEN MergeMatches(Tail(matches), store, [entries EXCEPT ![at] = entry])
          ELSE MergeMatches(Tail(matches), store, entries)

RECURSIVE InsertByScore(_, _)
InsertByScore(sorted, e) ==
  IF sorted = <<>> THEN <<e>>
  ELSE IF Head(sorted).score >= e.score
  THEN <<Head(sorted)>> \o InsertByScore(Tail(sorted), e)
  ELSE <<e>> \o sorted

\* .sort((a, b) => b.score - a.score): stable, highest score first
RECURSIVE SortByScore(_)
SortByScore(entries) ==
  IF entries = <<>> THEN <<>>
  ELSE InsertByScore(SortByScore(SubSeq(entries, 1, Len(entries) - 1)),
                     entries[Len(entries)])

\* the value searchMoviesByEmbedding returns for the matches it was given
searchMoviesByEmbedding(matches, store, limit) ==
  IF matches = <<>> THEN <<>>
  ELSE Take(SortByScore(MergeMatches(matches, store, <<>>)), limit)

\* ---------------------------------------------------------------- filters
\* String.prototype.split(','); cur is the piece being read
RECURSIVE SplitComma(_, _)
SplitComma(s, cur) ==
  IF s = <<>> THEN <<cur>>
  ELSE IF Head(s) = "," THEN <<cur>> \o SplitComma(Tail(s), <<>>)
  ELSE SplitComma(Tail(s), Append(cur, Head(s)))

\* params.genres?.split(',').map((g) => g.trim()).filter(Boolean)
GenresParam(text) ==
  LET parts == SplitComma(text, <<>>)
  IN SelectSeq([i \in 1..Len(parts) |-> Trim(parts[i])], LAMBDA g : g # <<>>)

\* the filters object of advancedSearch; an absent parameter is undefined
SearchFilters(params) ==
  LET plain == {f \in {"minRating", "maxRating", "minYear", "maxYear", "director"} :
                  Has(params, f)}
      base == [f \in plain |-> params[f]]
  IN IF Has(params, "genres")
     THEN Spread(base, [genres |-> GenresParam(params.genres)])
     ELSE base

\* if (filters.minYear), if (filters.maxRating), ...: undefined and 0 are falsy
TruthyNumber(filters, f) == Has(filters, f) /\ filters[f] # 0

\* { $gte: filters[min], $lte: filters[max] }, each bound only when truthy
RangeQuery(filters, min, max) ==
  Spread(IF TruthyNumber(filters, min) THEN [gte |-> filters[min]] ELSE EmptyObject,
         IF TruthyNumber(filters, max) THEN [lte |-> filters[max]] ELSE EmptyObject)

buildFilterQuery(filters) ==
  LET genres == IF Has(filters, "genres") /\ Len(filters.genres) > 0
                THEN [genres |-> filters.genres] ELSE EmptyObject
      director == IF Has(filters, "director") /\ filters.director # <<>>
                  THEN [director |-> filters.director] ELSE EmptyObject
      releaseYear == IF TruthyNumber(filters, "minYear") \/ TruthyNumber(filters, "maxYear")
                     THEN [releaseYear |-> RangeQuery(filters, "minYear", "maxYear")]
                     ELSE EmptyObject
      rating == IF TruthyNumber(filters, "minRating") \/ TruthyNumber(filters, "maxRating")
                THEN [rating |-> RangeQuery(filters, "minRating", "maxRating")]
                ELSE EmptyObject
  IN Spread(Spread(genres, director), Spread(releaseYear, rating))

Contains(text, part) ==
  \E i \in 0..(Len(text) - Len(part)) : SubSeq(text, i + 1, i + Len(part)) = part

InRange(doc, f, range) ==
  /\ Has(doc, f)
  /\ Has(range, "gte") => doc[f] >= range.gte
  /\ Has(range, "lte") => doc[f] <= range.lte

\* does the document match the query, as MovieModel.find / findOne decide it:
\* $in on an array field, case-insensitive $regex, $gte / $lte
MatchesQuery(doc, query) ==
  /\ Has(query, "genres") =>
       \E i \in 1..Len(doc.genres), j \in 1..Len(query.genres) :
         doc.genres[i] = query.genres[j]
  /\ Has(query, "director") =>
       Has(doc, "director")
         /\ Contains(ToLowerCase(doc.director), ToLowerCase(query.director))
  /\ Has(query, "releaseYear") => InRange(doc, "releaseYear", query.releaseYear)
  /\ Has(query, "rating") => InRange(doc, "rating", query.rating)

\* .sort({ createdAt: -1 }): the default sort of advancedSearch
RECURSIVE NewestFirst(_, _)
NewestFirst(store, ids) ==
  IF ids = {} THEN <<>>
  ELSE LET newest == CHOOSE i \in ids :
                       \A j \in ids : store[j].createdAt <= store[i].createdAt
       IN <<[movieId |-> newest]>> \o NewestFirst(store, ids \ {newest})

\* MovieModel.find(filterQuery).sort(sort).limit(limit)
FindMovies(store, query, limit) ==
  Take(NewestFirst(store, {i \in DOMAIN store : MatchesQuery(store[i], query)}), limit)

\* vectorResults.map(findOne({_id, ...filterQuery})).filter(Boolean)
FilterResults(results, store, query) ==
  SelectSeq(results, LAMBDA r :
    r.movieId \in DOMAIN store /\ MatchesQuery(store[r.movieId], query))

\* --------------------------------------------------------- search requests
OptionalField(name, values) ==
  {EmptyObject} \cup {[f \in {name} |-> v] : v \in values}

\* every combination of the structured filters of filterSchema
FilterParams ==
  {Spread(Spread(Spread(g, d), Spread(a, b)), Spread(y, z)) :
     g \in OptionalField("genres", {<<"g">>, <<",">>}),
     d \in OptionalField("director", {<<"u">>}),
     a \in OptionalField("minRating", {0, 9}),
     b \in OptionalField("maxRating", {0, 8}),
     y \in OptionalField("minYear", {1999}),
     z \in OptionalField("maxYear", {1999})}

\* GET /search (searchSchema) and the advanced search (filterSchema); the
\* advanced search is sent without sortBy and sortOrder
SearchRequests ==
  {[handler |-> "search", params |-> Spread([q |-> <<"a", "b", "c">>], l)] :
     l \in OptionalField("limit", {1})}
  \cup {[handler |-> "advanced", params |-> Spread(Spread([q |-> <<"a">>], l), f)] :
          l \in OptionalField("limit", {1}),
          \* the filters sent together with a query
          f \in {EmptyObject, [minRating |-> 9], [maxRating |-> 0],
                 [genres |-> <<"g">>, director |-> <<"u">>]}}
  \cup {[handler |-> "advanced", params |-> f] : f \in FilterParams}
  \cup {[handler |-> "advanced", params |-> [q |-> <<" ">>, minRating |-> 9]]}

\* limit ?? 10 (searchMoviesHandler), params.limit || 20 (advancedSearch)
RequestLimit(req) ==
  IF Has(req.params, "limit") /\ req.params.limit # 0 THEN req.params.limit
  ELSE IF req.handler = "search" THEN 10 ELSE 20

\* the limit searchMoviesByEmbedding is called with
EmbeddingLimit(req) ==
  IF req.handler = "search" THEN RequestLimit(req) ELSE RequestLimit(req) * 2

\* the number of neighbours semanticSearch asks the backend for
NeighborsAsked(req) == EmbeddingLimit(req) * 2

\* params.q && params.q.trim(); the q of searchSchema has three characters
HasQuery(req) ==
  Has(req.params, "q") /\ req.params.q # <<>> /\ Trim(req.params.q) # <<>>

\* the longest reply the backend gives to the call: what was asked for, cut
\* to MaxNeighbors
ReplySize(call) ==
  LET asked == NeighborsAsked([handler |-> call.handler, params |-> call.params])
  IN IF asked < MaxNeighbors THEN asked ELSE MaxNeighbors

NewSearch(req) ==
  [pc |-> IF req.handler = "search" \/ HasQuery(req) THEN "embed" ELSE "find",
   handler |-> req.handler,
   params |-> req.params,
   filters |-> IF req.handler = "advanced" THEN SearchFilters(req.params)
               ELSE EmptyObject,
   limit |-> RequestLimit(req),
   embedded |-> "none", neighborsAsked |-> 0, exists |-> TRUE, backendOk |-> TRUE,
   reply |-> [status |-> "none", matches |-> <<>>],
   results |-> <<>>,
   response |-> [status |-> "none", results |-> <<>>]]

Failure(call) ==
  [call EXCEPT !.pc = "done", !.response = [status |-> "error", results |-> <<>>]]

\* mutant: the handler answers with no results when the query cannot be embedded
AfterEmbeddingFailureSwallowed(call) ==
  [call EXCEPT !.embedded = "failed", !.pc = "done",
               !.response = [status |-> "ok", results |-> <<>>]]

\* generateEmbedding(q) threw: searchMoviesHandler wraps and rethrows,
\* advancedSearch logs and rethrows
AfterEmbeddingFailure(call) == Failure([call EXCEPT !.embedded = "failed"])

\* searchMoviesByEmbedding threw: searchMoviesHandler catches (results = []),
\* advancedSearch logs and rethrows
AfterVectorFailure(call) ==
  IF call.handler = "search"
  THEN [call EXCEPT !.results = <<>>, !.pc = "respond"]
  ELSE Failure(call)

SearchStart(req) ==
  /\ search = Idle
  /\ search' = NewSearch(req)
  /\ UNCHANGED <<movies, nextId, jobs, index, ingests, regens, updates,
                 backend, acks, embed,
                 pipeline, backfill, server>>

\* const embedding = await generateEmbedding(q)
SearchEmbed(ok) ==
  /\ search.pc = "embed"
  /\ search' = IF ok THEN [search EXCEPT !.embedded = "ok", !.pc = "vector"]
               ELSE AfterEmbeddingFailure(search)
  /\ UNCHANGED <<movies, nextId, jobs, index, ingests, regens, updates,
                 backend, acks, embed,
                 pipeline, backfill, server>>

\* await searchMoviesByEmbedding(embedding, limit): semanticSearch, then the
\* records of the matches are read and merged.  A collection that does not
\* exist holds no point; a backend that does not answer gives no neighbours.
SearchVector(exists, backendOk, neighbors) ==
  /\ search.pc = "vector"
  /\ ~exists => DOMAIN index = {} /\ backendOk
  /\ ~(exists /\ backendOk) => neighbors = <<>>
  /\ LET req == [handler |-> search.handler, params |-> search.params]
         reply == semanticSearch(backend, index, exists, backendOk, neighbors)
         asked == [search EXCEPT !.exists = exists, !.backendOk = backendOk,
                                 !.neighborsAsked = NeighborsAsked(req),
                                 !.reply = reply]
     IN search' =
          IF reply.status = "error" THEN AfterVectorFailure(asked)
          ELSE [asked EXCEPT
                  !.results = searchMoviesByEmbedding(reply.matches, movies,
                                                      EmbeddingLimit(req)),
                  !.pc = "respond"]
  /\ UNCHANGED <<movies, nextId, jobs, index, ingests, regens, updates,
                 backend, acks, embed,
                 pipeline, backfill, server>>

\* searchMoviesHandler: res.json of the results; advancedSearch: every result
\* is looked up again with the filter query, the survivors are cut to limit
SearchRespond ==
  /\ search.pc = "respond"
  /\ LET results == IF search.handler = "search" THEN search.results
                    ELSE Take(FilterResults(search.results, movies,
                                            buildFilterQuery(search.filters)),
                              search.limit)
     IN search' = [search EXCEPT !.pc = "done",
                                 !.response = [status |-> "ok", results |-> results]]
  /\ UNCHANGED <<movies, nextId, jobs, index, ingests, regens, updates,
                 backend, acks, embed,
                 pipeline, backfill, server>>

\* advancedSearch without a query: filters and sorting only
SearchFind ==
  /\ search.pc = "find"
  /\ search' = [search EXCEPT
       !.pc = "done",
       !.response = [status |-> "ok",
                     results |-> FindMovies(movies, buildFilterQuery(search.filters),
                                            search.limit)]]
  /\ UNCHANGED <<movies, nextId, jobs, index, ingests, regens, updates,
                 backend, acks, embed,
                 pipeline, backfill, server>>

\* the response has been sent
SearchEnd ==
  /\ search.pc = "done"
  /\ search' = Idle
  /\ UNCHANGED <<movies, nextId, jobs, index, ingests, regens, updates,
                 backend, acks, embed,
                 pipeline, backfill, server>>

\* ------------------------------------------------------------------- Next
Next ==
  \* a title-only record with a poster image, a rated record with a plot
  \/ \E req \in
          { [payload |-> [title |-> <<"M">>, genres |-> <<>>], image |-> TRUE],
            [payload |-> [title |-> <<"m">>, plot |-> <<"p">>, genres |-> <<>>,
                          rating |-> 8],
             image |-> FALSE] },
        uploadOk \in BOOLEAN :
       IngestStart(req.payload, req.image, uploadOk)
  \/ \E id \in DOMAIN ingests, ok \in BOOLEAN : IngestJobCreate(id, ok)
  \/ \E id \in DOMAIN ingests, failing \in SUBSET Sources : IngestGenerate(id, failing)
  \/ \E id \in DOMAIN ingests, ok \in BOOLEAN : IngestUpsert(id, ok)
  \/ \E id \in DOMAIN ingests, ok \in BOOLEAN : IngestKeys(id, ok)
  \/ \E id \in DOMAIN ingests, ok \in BOOLEAN : IngestJobSave(id, ok)
  \/ \E id \in DOMAIN ingests, ok \in BOOLEAN : IngestJobFail(id, ok)
  \/ \E id \in DOMAIN ingests : IngestEnd(id)
  \* payloads accepted by updateSchema (every field optional)
  \/ \E id \in DOMAIN movies,
        payload \in {[rating |-> 9], [plot |-> <<"q">>], [title |-> <<" ">>]} :
       UpdateMovie(id, payload)
  \/ \E t \in DOMAIN regens : RegenLookup(t)
  \/ \E t \in DOMAIN regens, failing \in SUBSET Sources : RegenGenerate(t, failing)
  \/ \E t \in DOMAIN regens, ok \in BOOLEAN : RegenUpsert(t, ok)
  \/ \E t \in DOMAIN regens, ok \in BOOLEAN : RegenKeys(t, ok)
  \/ \E id \in DOMAIN movies : DeleteMovie(id)
  \/ DedupeMovies

Spec == Init /\ [][Next]_vars

\* Ingest requests alone, with every payload shape and with or without image.
NextIngest ==
  \* payloads accepted by ingestionSchema (title is a non-empty string)
  \/ \E payload \in
          { [title |-> <<"M">>, genres |-> <<>>],
            [title |-> <<"m">>, plot |-> <<"p">>, genres |-> << <<"g">> >>,
             rating |-> 8],
            [title |-> <<"U">>, plot |-> <<" ">>, genres |-> <<>>,
             releaseYear |-> 1999] },
        image \in BOOLEAN, uploadOk \in BOOLEAN :
       IngestStart(payload, image, uploadOk)
  \/ \E id \in DOMAIN ingests, ok \in BOOLEAN : IngestJobCreate(id, ok)
  \/ \E id \in DOMAIN ingests, failing \in SUBSET Sources : IngestGenerate(id, failing)
  \/ \E id \in DOMAIN ingests, ok \in BOOLEAN : IngestUpsert(id, ok)
  \/ \E id \in DOMAIN ingests, ok \in BOOLEAN : IngestKeys(id, ok)
  \/ \E id \in DOMAIN ingests, ok \in BOOLEAN : IngestJobSave(id, ok)
  \/ \E id \in DOMAIN ingests, ok \in BOOLEAN : IngestJobFail(id, ok)
  \/ \E id \in DOMAIN ingests : IngestEnd(id)

SpecIngest == Init /\ [][NextIngest]_vars

\* ---------------------------------------------------------- search catalog
\* The records ingested before the searches: a full record whose genre
\* embedding failed, a rated record, a record none of whose embeddings could
\* be generated, and a record that was deleted afterwards.
SearchPayloads ==
  << [title |-> <<"M">>, plot |-> <<"p">>, genres |-> << <<"g">> >>, rating |-> 9,
      releaseYear |-> 1999, director |-> <<"U">>],
     [title |-> <<"m">>, genres |-> <<>>, rating |-> 8, releaseYear |-> 2005],
     [title |-> <<"U">>, genres |-> << <<"g">> >>],
     [title |-> <<"M", " ", "U">>, genres |-> <<>>, rating |-> 9] >>

\* the stores after one more request went through ingestMovie as record n
IngestOne(before, provider, n, req) ==
  LET embeddings == generateMovieEmbeddings(req.payload, req.failing)
      created == Spread(before.movies,
                        [i \in {n} |-> createMovie(req.payload, n,
                                                   IF req.image THEN n ELSE 0)])
      job == JobMarkCompleted([movieId |-> n, status |-> "processing",
                               errorMessage |-> NoMessage])
  IN IF DOMAIN embeddings = {}
     THEN [movies |-> created, index |-> before.index,
           jobs |-> Append(before.jobs, job)]
     ELSE [movies |-> updateMovieEmbeddingKeys(created, n, UpsertKeys(n, embeddings)),
           index |-> UpsertPoints(provider, before.index, n, embeddings),
           jobs |-> Append(before.jobs, job)]

\* the stores after the requests went through ingestMovie one after another
RECURSIVE IngestedAll(_, _)
IngestedAll(provider, requests) ==
  IF requests = <<>>
  THEN [movies |-> EmptyObject, index |-> EmptyObject, jobs |-> <<>>]
  ELSE LET n == Len(requests)
       IN IngestOne(IngestedAll(provider, SubSeq(requests, 1, n - 1)),
                    provider, n, requests[n])

\* the stores after the first n payloads went through ingestMovie, the
\* embedding provider failing for some sources of the first and the third
Ingested(provider, n) ==
  LET failing == << {"genre"}, {}, {"title", "genre"}, {} >>
  IN IngestedAll(provider, [i \in 1..n |-> [payload |-> SearchPayloads[i],
                                            failing |-> failing[i],
                                            image |-> FALSE]])

\* a fresh deployment, or the catalog above after deleteMovie of its last record
InitSearch ==
  /\ backend \in Backends
  /\ \E n \in {0, Len(SearchPayloads)} :
       LET st == Ingested(backend, n)
       IN /\ movies = IF n = 0 THEN st.movies ELSE Remove(st.movies, DeleteTargets(n))
          /\ index = IF n = 0 THEN st.index ELSE IndexAfterDelete(st.index, st.movies[n])
          /\ jobs = st.jobs
          /\ nextId = n + 1
  /\ ingests = EmptyObject
  /\ regens = EmptyObject
  /\ updates = 0
  /\ acks = EmptyObject
  /\ search = Idle
  /\ embed = Idle
  /\ pipeline = NoPipeline
  /\ backfill = Idle
  /\ server = Idle

NextSearch ==
  \/ \E req \in SearchRequests : SearchStart(req)
  \/ \E ok \in BOOLEAN : SearchEmbed(ok)
  \/ /\ search.pc = "vector"
     /\ \E exists \in BOOLEAN, backendOk \in BOOLEAN :
          \E neighbors \in NeighborLists(backend, index, ReplySize(search)) :
            SearchVector(exists, backendOk, neighbors)
  \/ SearchRespond
  \/ SearchFind
  \/ SearchEnd

SpecSearch == InitSearch /\ [][NextSearch]_vars

\* ---------------------------------------------------------- dedupe catalog
\* a catalog of one to MaxCatalog ingested records, nothing in flight; the
\* titles differ in case and in inner whitespace only, with and without a
\* release year, a rating and a poster image
InitDedupe ==
  /\ backend \in Backends
  /\ \E n \in 1..MaxCatalog :
     \E requests \in
        [1..n ->
           { [payload |-> [title |-> <<"M">>, genres |-> <<>>], image |-> FALSE],
             [payload |-> [title |-> <<"m">>, genres |-> <<>>, rating |-> 8], image |-> FALSE],
             [payload |-> [title |-> <<"M">>, genres |-> <<>>, releaseYear |-> 1999],
              image |-> TRUE],
             [payload |-> [title |-> <<" ", "m", " ">>, genres |-> <<>>, releaseYear |-> 1999,
                           rating |-> 8],
              image |-> FALSE],
             [payload |-> [title |-> <<"M", " ", " ", "U">>, genres |-> <<>>], image |-> TRUE],
             [payload |-> [title |-> <<"m", " ", "u">>, genres |-> <<>>, rating |-> 8],
              image |-> FALSE],
             [payload |-> [title |-> <<"m", " ", "u">>, genres |-> <<>>, releaseYear |-> 2005],
              image |-> FALSE],
             [payload |-> [title |-> <<"m">>, genres |-> <<>>], image |-> TRUE] }] :
       LET st == IngestedAll(backend,
                             [i \in 1..n |-> [payload |-> requests[i].payload,
                                              failing |-> {},
                                              image |-> requests[i].image]])
       IN /\ movies = st.movies
          /\ index = st.index
          /\ jobs = st.jobs
          /\ nextId = n + 1
  /\ ingests = EmptyObject
  /\ regens = EmptyObject
  /\ updates = 0
  /\ acks = EmptyObject
  /\ search = Idle
  /\ embed = Idle
  /\ pipeline = NoPipeline
  /\ backfill = Idle
  /\ server = Idle

NextDedupe == DedupeMovies

SpecDedupe == InitDedupe /\ [][NextDedupe]_vars

\* ------------------------------------------------------- generateEmbedding
\* A component of a vector: a finite number, or NaN (what adding undefined or
\* NaN gives).
Num(v) == [nan |-> FALSE, v |-> v]

NaN == [nan |-> TRUE, v |-> 0]

Components == {Num(6), Num(12), NaN}

\* arrays a model or a provider can hand back: empty, of the configured
\* dimension, one longer
Rows ==
  UNION {[1..n -> Components] : n \in {0, VectorDimension, VectorDimension + 1}}

\* token-level output: one to MaxTokens rows (no row at all is the empty 1D
\* array)
Matrices == UNION {[1..t -> Rows] : t \in 1..MaxTokens}

\* What `await extractor(text)` resolves to (embeddingService.ts) and what the
\* remote providers answer (the generateEmbedding of gridfsService.ts); "rows"
\* holds the rows of a 2D value, the only row of a 1D value.
ModelResults ==
  [shape : {"array 2D", "data 2D", "tolist 2D"}, rows : Matrices]
    \cup [shape : {"array 1D", "data 1D", "tolist 1D", "service vector",
                   "huggingface 1D", "openai vector"},
          rows : {<<r>> : r \in Rows}]
    \cup [shape : {"huggingface 2D"}, rows : Matrices]
    \* a Float32Array of any length up to MaxTokens rows and one more component
    \cup [shape : {"data typed"},
          rows : {<<a>> : a \in UNION {[1..n -> Components] :
                                        n \in 0..(MaxTokens * VectorDimension + 1)}}]
    \cup [shape : {"array empty", "array of scalars", "tolist scalar", "object",
                   "primitive", "service no vector", "huggingface error",
                   "openai no vector", "rejected"},
          rows : {<<>>}]

Vector(v) == [status |-> "ok", vector |-> v]

EmbeddingError == [status |-> "error", vector |-> <<>>]

\* pooled[i] += tokenEmbedding[i]; a missing tokenEmbedding[i] is undefined
RECURSIVE SumAt(_, _)
SumAt(rows, i) ==
  IF rows = <<>> THEN Num(0)
  ELSE LET a == IF i \in DOMAIN Head(rows) THEN Head(rows)[i] ELSE NaN
           b == SumAt(Tail(rows), i)
       IN IF a.nan \/ b.nan THEN NaN ELSE Num(a.v + b.v)

\* applyMeanPooling (pooled[i] /= tokenEmbeddings.length), then the test of
\* generateLocalEmbedding on its result
applyMeanPooling(tokenEmbeddings) ==
  IF tokenEmbeddings = <<>> THEN EmbeddingError
  ELSE LET sum(i) == SumAt(tokenEmbeddings, i)
           pooled == [i \in 1..Len(tokenEmbeddings[1]) |->
                        IF sum(i).nan THEN NaN
                        ELSE Num(sum(i).v \div Len(tokenEmbeddings))]
       IN IF Len(pooled) = 0 THEN EmbeddingError ELSE Vector(pooled)

\* a 1D value: returned as it is when it has the configured dimension,
\* otherwise pooled as a single token; a typed array is cut into rows by
\* arr.slice(i * dim, (i + 1) * dim) for i < Math.floor(arr.length / dim)
generateLocalEmbedding(result) ==
  CASE result.shape \in {"array 2D", "data 2D", "tolist 2D"} ->
         applyMeanPooling(result.rows)
    [] result.shape \in {"array 1D", "data 1D", "tolist 1D"} ->
         IF Len(result.rows[1]) = VectorDimension THEN Vector(result.rows[1])
         ELSE applyMeanPooling(<<result.rows[1]>>)
    [] result.shape = "data typed" ->
         IF Len(result.rows[1]) = VectorDimension THEN Vector(result.rows[1])
         ELSE applyMeanPooling(
                [i \in 1..(Len(result.rows[1]) \div VectorDimension) |->
                   SubSeq(result.rows[1], (i - 1) * VectorDimension + 1,
                          i * VectorDimension)])
    [] OTHER -> EmbeddingError

\* the providers of the generateEmbedding in gridfsService.ts
generateRemoteEmbedding(result) ==
  CASE result.shape \in {"service vector", "openai vector"} ->
         Vector(result.rows[1])          \* if (!response.data?.vector) throw
    [] result.shape = "huggingface 2D" ->
         IF Len(result.rows[1]) = 0 THEN EmbeddingError ELSE Vector(result.rows[1])
    [] result.shape = "huggingface 1D" ->
         IF Len(result.rows[1]) = 0 THEN EmbeddingError ELSE Vector(result.rows[1])
    [] OTHER -> EmbeddingError

\* generateEmbedding(text); result: what the model or provider gives for it
generateEmbedding(text, result) ==
  IF text = <<>> \/ Trim(text) = <<>> THEN EmbeddingError
  ELSE IF result.shape \in {"service vector", "service no vector",
                            "huggingface 2D", "huggingface 1D",
                            "huggingface error", "openai vector",
                            "openai no vector"}
       THEN generateRemoteEmbedding(result)
  ELSE generateLocalEmbedding(result)

EmbedStart(text) ==
  /\ embed = Idle
  /\ embed' = [pc |-> "call", text |-> text]
  /\ UNCHANGED <<movies, nextId, jobs, index, ingests, regens, updates,
                 backend, acks, search,
                 pipeline, backfill, server>>

EmbedReturn(result) ==
  /\ embed.pc = "call"
  /\ embed' = [pc |-> "done", text |-> embed.text, result |-> result,
               out |-> generateEmbedding(embed.text, result)]
  /\ UNCHANGED <<movies, nextId, jobs, index, ingests, regens, updates,
                 backend, acks, search,
                 pipeline, backfill, server>>

EmbedEnd ==
  /\ embed.pc = "done"
  /\ embed' = Idle
  /\ UNCHANGED <<movies, nextId, jobs, index, ingests, regens, updates,
                 backend, acks, search,
                 pipeline, backfill, server>>

NextEmbedding ==
  \/ \E text \in {<<>>, <<" ">>, <<"a">>, <<" ", "a">>} : EmbedStart(text)
  \/ \E result \in ModelResults : EmbedReturn(result)
  \/ EmbedEnd

SpecEmbedding == Init /\ [][NextEmbedding]_vars

\* ------------------------------------------- generateHuggingFaceEmbedding
\* what the POST to the inference router ends with: a vector (1D or 2D body),
\* an error body (with "loading" in it or not, estimated_time absent (0) or
\* given), a rejected request with its HTTP status
HfReplies ==
  [kind : {"vector"}, shape : {"huggingface 1D", "huggingface 2D"},
   vector : {<<>>, <<Num(6), Num(12)>>}]
    \cup [kind : {"error body"}, loading : BOOLEAN, estimated_time : {0, 5}]
    \cup [kind : {"rejected"}, status : {503, 410, 500}]

\* the model is still loading: an error body naming it, or HTTP 503
Transient(reply) ==
  \/ reply.kind = "error body" /\ reply.loading
  \/ reply.kind = "rejected" /\ reply.status = 503

ShouldRetryAlso(reply, retries) == Transient(reply) /\ retries >= 0

\* ... && retries > 0
ShouldRetry(reply, retries) == Transient(reply) /\ retries > 0

HfDone(call, out) ==
  [pc |-> "done", text |-> call.text, retries |-> call.retries,
   cached |-> call.cached, gets |-> call.gets, posts |-> call.posts,
   waits |-> call.waits, out |-> out]

\* generateEmbedding(text) with EMBEDDING_PROVIDER=huggingface; cached: an
\* earlier call has recorded the model in modelPreflightCache
HfStart(text, apiKey, cached) ==
  /\ embed = Idle
  /\ LET call == [pc |-> "preflight", text |-> text, retries |-> DefaultRetries,
                  cached |-> cached, gets |-> 0, posts |-> 0, waits |-> <<>>]
     IN embed' = IF text = <<>> \/ Trim(text) = <<>> \/ ~apiKey
                 THEN HfDone(call, EmbeddingError)
                 ELSE call
  /\ UNCHANGED <<movies, nextId, jobs, index, ingests, regens, updates,
                 backend, acks, search,
                 pipeline, backfill, server>>

\* await checkHuggingFaceModelAccessible(env.EMBEDDING_MODEL)
HfPreflight(reply) ==
  /\ embed.pc = "preflight"
  /\ embed.cached => reply = "200"
  /\ embed' =
       IF embed.cached THEN [embed EXCEPT !.pc = "post"]
       ELSE LET asked == [embed EXCEPT !.gets = @ + 1]
            IN CASE reply = "200" -> [asked EXCEPT !.pc = "post", !.cached = TRUE]
                 [] reply = "204" -> [asked EXCEPT !.pc = "post"]
                 [] OTHER -> HfDone(asked, EmbeddingError)
  /\ UNCHANGED <<movies, nextId, jobs, index, ingests, regens, updates,
                 backend, acks, search,
                 pipeline, backfill, server>>

\* await axios.post(...) and what follows it up to the wait or the return
HfPost(reply) ==
  /\ embed.pc = "post"
  /\ LET asked == [embed EXCEPT !.posts = @ + 1]
     IN embed' =
          IF ShouldRetry(reply, embed.retries)
          \* (response.data.estimated_time || 10) * 1000, or the 10000 of the
          \* 503 branch
          THEN [asked EXCEPT
                  !.pc = "wait",
                  !.waits = Append(@, IF reply.kind = "error body"
                                         /\ reply.estimated_time # 0
                                      THEN reply.estimated_time * 1000
                                      ELSE 10000)]
          ELSE IF reply.kind = "vector"
          THEN HfDone(asked, generateRemoteEmbedding(
                               [shape |-> reply.shape, rows |-> <<reply.vector>>]))
          ELSE HfDone(asked, EmbeddingError)
  /\ UNCHANGED <<movies, nextId, jobs, index, ingests, regens, updates,
                 backend, acks, search,
                 pipeline, backfill, server>>

\* the timer fires: return generateHuggingFaceEmbedding(text, retries - 1)
HfRetry ==
  /\ embed.pc = "wait"
  /\ embed' = [embed EXCEPT !.pc = "preflight", !.retries = @ - 1]
  /\ UNCHANGED <<movies, nextId, jobs, index, ingests, regens, updates,
                 backend, acks, search,
                 pipeline, backfill, server>>

HfEnd ==
  /\ embed.pc = "done"
  /\ embed' = Idle
  /\ UNCHANGED <<movies, nextId, jobs, index, ingests, regens, updates,
                 backend, acks, search,
                 pipeline, backfill, server>>

NextHuggingFace ==
  \/ \E text \in {<<>>, <<" ">>, <<"a">>, <<" ", "a">>},
        apiKey \in BOOLEAN, cached \in BOOLEAN :
       HfStart(text, apiKey, cached)
  \* what the GET of checkHuggingFaceModelAccessible ends with: 200, another
  \* 2xx status, the statuses it reports, any other failure
  \/ \E reply \in {"200", "204", "404", "401", "failed"} : HfPreflight(reply)
  \/ \E reply \in HfReplies : HfPost(reply)
  \/ HfRetry
  \/ HfEnd

SpecHuggingFace == Init /\ [][NextHuggingFace]_vars

\* -------------------------------------------------- initializeLocalPipeline
\* caller c enters initializeLocalPipeline and runs to its first await
PipelineEnter(c) ==
  /\ c \notin DOMAIN pipeline.callers
  /\ pipeline.calls < MaxCalls
  /\ LET pc == IF pipeline.localPipeline /\ pipeline.pipelineModel = ModelName
               THEN "done"
               ELSE IF ~pipeline.pipelineModule THEN "import"
               ELSE "quantized"
     IN pipeline' = [pipeline EXCEPT !.callers = Spread(@, [i \in {c} |-> pc]),
                                     !.calls = @ + 1]
  /\ UNCHANGED <<movies, nextId, jobs, index, ingests, regens, updates,
                 backend, acks, search, embed, backfill, server>>

\* pipelineModule = await import("@xenova/transformers")
PipelineImport(c, ok) ==
  /\ c \in DOMAIN pipeline.callers
  /\ pipeline.callers[c] = "import"
  /\ pipeline' = IF ok
                 THEN [pipeline EXCEPT !.pipelineModule = TRUE,
                                       !.callers[c] = "quantized"]
                 ELSE [pipeline EXCEPT !.callers[c] = "failed"]
  /\ UNCHANGED <<movies, nextId, jobs, index, ingests, regens, updates,
                 backend, acks, search, embed, backfill, server>>

\* localPipeline = await pipeline("feature-extraction", modelName, {quantized});
\* then pipelineModel = modelName (no await in between)
PipelineLoaded(state) ==
  [state EXCEPT !.localPipeline = TRUE, !.pipelineModel = ModelName,
                !.loads = @ + 1]

PipelineQuantized(c, ok) ==
  /\ c \in DOMAIN pipeline.callers
  /\ pipeline.callers[c] = "quantized"
  /\ pipeline' = IF ok
                 THEN [PipelineLoaded(pipeline) EXCEPT !.callers[c] = "done"]
                 ELSE [pipeline EXCEPT !.callers[c] = "fallback"]
  /\ UNCHANGED <<movies, nextId, jobs, index, ingests, regens, updates,
                 backend, acks, search, embed, backfill, server>>

PipelineFallback(c, ok) ==
  /\ c \in DOMAIN pipeline.callers
  /\ pipeline.callers[c] = "fallback"
  /\ pipeline' = IF ok
                 THEN [PipelineLoaded(pipeline) EXCEPT !.callers[c] = "done"]
                 ELSE [pipeline EXCEPT !.callers[c] = "failed"]
  /\ UNCHANGED <<movies, nextId, jobs, index, ingests, regens, updates,
                 backend, acks, search, embed, backfill, server>>

\* the caller gets the pipeline, or the error
PipelineReturn(c) ==
  /\ c \in DOMAIN pipeline.callers
  /\ pipeline.callers[c] \in {"done", "failed"}
  /\ pipeline' = [pipeline EXCEPT !.callers = Remove(@, {c})]
  /\ UNCHANGED <<movies, nextId, jobs, index, ingests, regens, updates,
                 backend, acks, search, embed, backfill, server>>

NextPipeline ==
  \E c \in 1..MaxCallers :
    \/ PipelineEnter(c)
    \/ \E ok \in BOOLEAN : PipelineImport(c, ok)
    \/ \E ok \in BOOLEAN : PipelineQuantized(c, ok)
    \/ \E ok \in BOOLEAN : PipelineFallback(c, ok)
    \/ PipelineReturn(c)

SpecPipeline == Init /\ [][NextPipeline]_vars

\* --------------------------------------------------- backfillMissingPosters
\* String.prototype.replace(pattern, replacement) with a string pattern: the
\* first occurrence only
ReplaceFirst(s, pattern, replacement) ==
  LET hits == {k \in 1..(Len(s) - Len(pattern) + 1) :
                 SubSeq(s, k, k + Len(pattern) - 1) = pattern}
  IN IF hits = {} THEN s
     ELSE LET k == MinOf(hits)
          IN SubSeq(s, 1, k - 1) \o replacement
               \o SubSeq(s, k + Len(pattern), Len(s))

\* [posterUrl, posterUrl.replace('/w500/', '/original/'),
\*  posterUrl.replace('/w500', '/original')].filter(Boolean)
UrlCandidates(posterUrl) ==
  SelectSeq(<< posterUrl,
               ReplaceFirst(posterUrl, <<"/w500", "/">>, <<"/original", "/">>),
               ReplaceFirst(posterUrl, <<"/w500">>, <<"/original">>) >>,
            LAMBDA url : url # <<>>)

\* MovieModel.find({posterGridFSId: {$exists: false},
\*                  posterUrl: {$exists: true, $ne: ''}}), in _id order
RECURSIVE BackfillCandidates(_, _)
BackfillCandidates(store, ids) ==
  IF ids = {} THEN <<>>
  ELSE LET id == MinOf(ids)
           rest == BackfillCandidates(store, ids \ {id})
       IN IF /\ ~Has(store[id], "posterGridFSId")
             /\ Has(store[id], "posterUrl")
             /\ store[id].posterUrl # <<>>
          THEN <<[movieId |-> id, posterUrl |-> store[id].posterUrl]>> \o rest
          ELSE rest

\* the run moves on to the next candidate, or returns after the last one
BackfillNext(run, outcome) ==
  LET n == run.i + 1
  IN [run EXCEPT !.i = n,
                 !.tried = <<>>,
                 !.pc = IF n > Len(run.candidates) THEN "done" ELSE "fetch",
                 !.updated = IF outcome = "updated" THEN @ + 1 ELSE @,
                 !.failed = IF outcome = "failed" THEN @ + 1 ELSE @,
                 !.log = Append(@, [movieId |-> run.candidates[run.i].movieId,
                                    attempts |-> Len(run.tried),
                                    fetched |-> run.tried # <<>>
                                                  /\ run.tried[Len(run.tried)].ok,
                                    outcome |-> outcome])]

\* a failure that leaves the loop: the run ends without the other candidates
BackfillFailedAbort(run) ==
  [BackfillNext(run, "failed") EXCEPT !.pc = "done"]

\* catch (error) { logger.warn(...); failed++; }
BackfillFailed(run) == BackfillNext(run, "failed")

\* const candidates = await MovieModel.find(...)
BackfillStart ==
  /\ backfill = Idle
  /\ LET candidates == BackfillCandidates(movies, DOMAIN movies)
     IN backfill' = [pc |-> IF candidates = <<>> THEN "done" ELSE "fetch",
                     candidates |-> candidates, i |-> 1, tried |-> <<>>,
                     updated |-> 0, failed |-> 0, log |-> <<>>]
  /\ UNCHANGED <<movies, nextId, jobs, index, ingests, regens, updates,
                 backend, acks, search, embed, pipeline, server>>

\* await axios.get(url, ...) for the next url of urlCandidates
BackfillFetch(ok) ==
  /\ backfill.pc = "fetch"
  /\ LET urls == UrlCandidates(backfill.candidates[backfill.i].posterUrl)
         k == Len(backfill.tried) + 1
         fetched == [backfill EXCEPT !.tried = Append(@, [url |-> urls[k], ok |-> ok])]
     IN backfill' = IF ok THEN [fetched EXCEPT !.pc = "upload"]
                    ELSE IF k < Len(urls) THEN fetched
                    ELSE BackfillFailed(fetched)
  /\ UNCHANGED <<movies, nextId, jobs, index, ingests, regens, updates,
                 backend, acks, search, embed, pipeline, server>>

\* await uploadImageToGridFS(buffer, filename, contentType)
BackfillUpload(ok) ==
  /\ backfill.pc = "upload"
  /\ backfill' = IF ok THEN [backfill EXCEPT !.pc = "save"]
                 ELSE BackfillFailed(backfill)
  /\ UNCHANGED <<movies, nextId, jobs, index, ingests, regens, updates,
                 backend, acks, search, embed, pipeline, server>>

\* movie.posterGridFSId = fileId; await movie.save(); updated++
BackfillSave(ok) ==
  /\ backfill.pc = "save"
  /\ LET id == backfill.candidates[backfill.i].movieId
     IN IF ok /\ id \in DOMAIN movies
        THEN /\ movies' = [movies EXCEPT ![id] =
                             Spread(@, [posterGridFSId |-> 100 + id])]
             /\ backfill' = BackfillNext(backfill, "updated")
        ELSE /\ movies' = movies
             /\ backfill' = BackfillFailed(backfill)
  /\ UNCHANGED <<nextId, jobs, index, ingests, regens, updates,
                 backend, acks, search, embed, pipeline, server>>

\* return {total: candidates.length, updated, failed}
BackfillEnd ==
  /\ backfill.pc = "done"
  /\ backfill' = Idle
  /\ UNCHANGED <<movies, nextId, jobs, index, ingests, regens, updates,
                 backend, acks, search, embed, pipeline, server>>

\* a catalog of one to MaxBackfill ingested records, nothing in flight:
\* records with a poster URL ("b/w500/a", "b/w500a", "b/a", as sequences of
\* path pieces), with the empty URL, without one, and one that has its poster
\* image already
InitBackfill ==
  /\ backend \in Backends
  /\ \E n \in 1..MaxBackfill :
     \E requests \in
        [1..n ->
           {[payload |-> [title |-> <<"M">>, genres |-> <<>>, posterUrl |-> u],
             image |-> FALSE] :
              u \in {<<"b", "/w500", "/", "a">>, <<"b", "/w500", "a">>,
                     <<"b", "/", "a">>, <<>>}}
             \cup {[payload |-> [title |-> <<"m">>, genres |-> <<>>],
                    image |-> FALSE],
                   [payload |-> [title |-> <<"U">>, genres |-> <<>>,
                                 posterUrl |-> <<"b", "/w500", "/", "a">>],
                    image |-> TRUE]}] :
       LET st == IngestedAll(backend,
                             [i \in 1..n |-> [payload |-> requests[i].payload,
                                              failing |-> {},
                                              image |-> requests[i].image]])
       IN /\ movies = st.movies
          /\ index = st.index
          /\ jobs = st.jobs
          /\ nextId = n + 1
  /\ ingests = EmptyObject
  /\ regens = EmptyObject
  /\ updates = 0
  /\ acks = EmptyObject
  /\ search = Idle
  /\ embed = Idle
  /\ pipeline = NoPipeline
  /\ backfill = Idle
  /\ server = Idle

NextBackfill ==
  \/ BackfillStart
  \/ \E ok \in BOOLEAN : BackfillFetch(ok)
  \/ \E ok \in BOOLEAN : BackfillUpload(ok)
  \/ \E ok \in BOOLEAN : BackfillSave(ok)
  \/ BackfillEnd

SpecBackfill == InitBackfill /\ [][NextBackfill]_vars

\* -------------------------------------------------------------- startServer
\* findOne({title: {$regex: /^<title.trim()>$/i}, releaseYear: year})
movieExists(store, title, year) ==
  \E id \in DOMAIN store :
    /\ ToLowerCase(store[id].title) = ToLowerCase(Trim(title))
    /\ Has(store[id], "releaseYear")
    /\ store[id].releaseYear = year

\* startServer() is called when the module is loaded
ServerStart(autoImport, data) ==
  /\ server = Idle
  /\ server' = [pc |-> "connect", autoImport |-> autoImport, data |-> data,
                i |-> 1, successCount |-> 0, skippedCount |-> 0, errorCount |-> 0,
                imported |-> "none", code |-> 0]
  /\ UNCHANGED <<movies, nextId, jobs, index, ingests, regens, updates,
                 backend, acks, search, embed, pipeline, backfill>>

\* await connectDatabase(); initializeGridFS(); await initializeVectorDB();
\* the catch of startServer ends with process.exit(1)
ServerConnect(ok) ==
  /\ server.pc = "connect"
  /\ server' = IF ~ok THEN [server EXCEPT !.pc = "exited", !.code = 1]
               ELSE IF server.autoImport THEN [server EXCEPT !.pc = "import"]
               ELSE [server EXCEPT !.pc = "listen"]
  /\ UNCHANGED <<movies, nextId, jobs, index, ingests, regens, updates,
                 backend, acks, search, embed, pipeline, backfill>>

\* importMovies(): connect again and read movies.json; a failure is caught
\* by importMovies itself, which ends with process.exit(1)
ImportOpen(ok) ==
  /\ server.pc = "import"
  /\ server' = IF ok THEN [server EXCEPT !.pc = "movie"]
               ELSE [server EXCEPT !.imported = "failed", !.pc = "exited",
                                   !.code = 1]
  /\ UNCHANGED <<movies, nextId, jobs, index, ingests, regens, updates,
                 backend, acks, search, embed, pipeline, backfill>>

\* one round of for (const movie of moviesData); ok: nothing in it throws
ImportMovie(ok) ==
  /\ server.pc = "movie"
  /\ server.i <= Len(server.data)
  /\ LET movie == server.data[server.i]
         next == [server EXCEPT !.i = @ + 1]
     IN IF ~ok
        THEN /\ server' = [next EXCEPT !.errorCount = @ + 1]
             /\ UNCHANGED <<movies, nextId, jobs, index>>
        ELSE IF movieExists(movies, movie.title, movie.releaseYear)
        THEN /\ server' = [next EXCEPT !.skippedCount = @ + 1]
             /\ UNCHANGED <<movies, nextId, jobs, index>>
        ELSE LET st == IngestOne([movies |-> movies, index |-> index, jobs |-> jobs],
                                 backend, nextId,
                                 [payload |-> movie, failing |-> {}, image |-> FALSE])
             IN /\ server' = [next EXCEPT !.successCount = @ + 1]
                /\ movies' = st.movies
                /\ index' = st.index
                /\ jobs' = st.jobs
                /\ nextId' = nextId + 1
  /\ UNCHANGED <<ingests, regens, updates,
                 backend, acks, search, embed, pipeline, backfill>>

\* after the loop: the counts are logged, then process.exit(0)
ImportFinish ==
  /\ server.pc = "movie"
  /\ server.i > Len(server.data)
  /\ server' = [server EXCEPT !.imported = "succeeded", !.pc = "exited",
                              !.code = 0]
  /\ UNCHANGED <<movies, nextId, jobs, index, ingests, regens, updates,
                 backend, acks, search, embed, pipeline, backfill>>

\* app.listen(env.port, ...)
ServerListen ==
  /\ server.pc = "listen"
  /\ server' = [server EXCEPT !.pc = "listening"]
  /\ UNCHANGED <<movies, nextId, jobs, index, ingests, regens, updates,
                 backend, acks, search, embed, pipeline, backfill>>

NextServer ==
  \* data: the entries of data/movies.json
  \/ \E autoImport \in BOOLEAN :
       \E n \in 0..MaxImport :
         \E data \in
            [1..n ->
               { [title |-> <<"M">>, plot |-> <<"p">>, genres |-> <<>>,
                  releaseYear |-> 1999],
                 [title |-> <<" ", "m">>, plot |-> <<>>, genres |-> <<>>,
                  releaseYear |-> 1999],
                 [title |-> <<"U">>, plot |-> <<>>, genres |-> << <<"g">> >>,
                  releaseYear |-> 2005] }] :
           ServerStart(autoImport, data)
  \/ \E ok \in BOOLEAN : ServerConnect(ok)
  \/ \E ok \in BOOLEAN : ImportOpen(ok)
  \/ \E ok \in BOOLEAN : ImportMovie(ok)
  \/ ImportFinish
  \/ ServerListen

SpecServer == Init /\ [][NextServer]_vars

\* ------------------------------------------------------ successive updates
\* one record {title: "m", plot: "p"}, ingested, nothing in flight
InitUpdates ==
  /\ backend \in Backends
  /\ LET st == IngestedAll(backend,
                           <<[payload |-> [title |-> <<"m">>, plot |-> <<"p">>,
                                           genres |-> <<>>],
                              failing |-> {}, image |-> FALSE]>>)
     IN /\ movies = st.movies
        /\ index = st.index
        /\ jobs = st.jobs
  /\ nextId = 2
  /\ ingests = EmptyObject
  /\ regens = EmptyObject
  /\ updates = 0
  /\ acks = EmptyObject
  /\ search = Idle
  /\ embed = Idle
  /\ pipeline = NoPipeline
  /\ backfill = Idle
  /\ server = Idle

\* updates issued one after the other, their background re-embeddings running
\* as the event loop lets them, with the embedding provider, the vector store
\* and the record store answering every call
NextUpdates ==
  \/ /\ updates < MaxSuccessive
     /\ \E payload \in { [plot |-> <<"q">>], [plot |-> <<"r">>],
                          [plot |-> <<" ">>], [title |-> <<"U">>],
                          [genres |-> << <<"g">> >>], [rating |-> 9] } :
          UpdateMovieCall(1, payload)
  \/ \E t \in DOMAIN regens : RegenLookup(t)
  \/ \E t \in DOMAIN regens : RegenGenerate(t, {})
  \/ \E t \in DOMAIN regens : RegenUpsert(t, TRUE)
  \/ \E t \in DOMAIN regens : RegenKeys(t, TRUE)

SpecUpdates == InitUpdates /\ [][NextUpdates]_vars

\* ------------------------------------------------- search during removals
\* a rated record with a plot, a lower-rated duplicate of it, a third record
InitRemoval ==
  /\ backend \in Backends
  /\ LET catalog ==
           << [payload |-> [title |-> <<"M">>, plot |-> <<"p">>, genres |-> <<>>,
                            rating |-> 9, releaseYear |-> 1999],
               failing |-> {}, image |-> FALSE],
              [payload |-> [title |-> <<"m">>, genres |-> <<>>, rating |-> 8,
                            releaseYear |-> 1999],
               failing |-> {}, image |-> FALSE],
              [payload |-> [title |-> <<"U">>, genres |-> <<>>], failing |-> {},
               image |-> FALSE] >>
         st == IngestedAll(backend, catalog)
     IN /\ movies = st.movies
        /\ index = st.index
        /\ jobs = st.jobs
        /\ nextId = Len(catalog) + 1
  /\ ingests = EmptyObject
  /\ regens = EmptyObject
  /\ updates = 0
  /\ acks = EmptyObject
  /\ search = Idle
  /\ embed = Idle
  /\ pipeline = NoPipeline
  /\ backfill = Idle
  /\ server = Idle

\* semantic searches (a query and no structured filter) served while records
\* are deleted and deduplicated
NextRemoval ==
  \/ \E req \in {r \in SearchRequests :
                   HasQuery(r) /\ DOMAIN r.params \subseteq {"q", "limit"}} :
       SearchStart(req)
  \/ \E ok \in BOOLEAN : SearchEmbed(ok)
  \/ /\ search.pc = "vector"
     /\ \E exists \in BOOLEAN, backendOk \in BOOLEAN :
          \E neighbors \in NeighborLists(backend, index, ReplySize(search)) :
            SearchVector(exists, backendOk, neighbors)
  \/ SearchRespond
  \/ SearchEnd
  \/ \E id \in DOMAIN movies : DeleteMovie(id)
  \/ DedupeMovies

SpecRemoval == InitRemoval /\ [][NextRemoval]_vars

\* ================================================================== claims
PointsOf(movieId) == {p \in DOMAIN index : index[p].movieId = movieId}

JobOf(call) == jobs[call.jobId]

\* C1: in every reachable state, every key in an existing record's
\* embeddingKeys references a point that exists in the vector index.
C1_EmbeddingKeysReferToPoints ==
  \A id \in DOMAIN movies : \A s \in DOMAIN movies[id].embeddingKeys :
    movies[id].embeddingKeys[s] \in DOMAIN index

\* a record whose keys were rewritten by a re-embedding, after another record
\* was removed from the store
C1_Witness ==
  \E id \in DOMAIN movies :
    /\ "plot" \in DOMAIN movies[id].embeddingKeys
    /\ index[movies[id].embeddingKeys["plot"]].vector = Embed(<<"q">>)
    /\ Cardinality(DOMAIN movies) < nextId - 1

\* C2 (as claimed): a step of deleteMovie(id) leaves no point in the vector
\* index whose id is listed in the deleted record's embeddingKeys.
C2_DeleteRemovesPoints ==
  [][\A id \in DOMAIN movies :
       DeleteMovie(id) =>
         \A s \in DOMAIN movies[id].embeddingKeys :
           movies[id].embeddingKeys[s] \notin DOMAIN index']_vars

\* C3: within one ingest call embeddingKeys is written only after the upsert
\* succeeded; the record's keys are then exactly the sources that were
\* generated and upserted and every key is a point of the index; before the
\* write (or without it) the record has no keys.  A title-only record ends
\* with exactly one point and the single key "title".
C3_KeysOnlyAfterUpsert ==
  \A id \in DOMAIN ingests :
    LET call == ingests[id]
        keys == movies[id].embeddingKeys
    IN /\ call.pc = "keys" => call.upsert = "ok"
       /\ call.keysWrite = "ok" => call.upsert = "ok"
       /\ call.keysWrite = "ok" =>
            /\ DOMAIN keys = DOMAIN call.embeddings
            /\ \A s \in DOMAIN keys :
                 /\ keys[s] \in DOMAIN index
                 /\ index[keys[s]].movieId = id
                 /\ index[keys[s]].source = s
       /\ call.keysWrite # "ok" => DOMAIN keys = {}
       /\ (call.keysWrite = "ok" /\ PresentSources(call.payload) = {"title"}) =>
            /\ DOMAIN keys = {"title"}
            /\ PointsOf(id) = {PointId(id, "title")}

\* a finished title-only ingest whose key has been written
C3_Witness ==
  \E id \in DOMAIN ingests :
    /\ ingests[id].pc = "done"
    /\ PresentSources(ingests[id].payload) = {"title"}
    /\ ingests[id].keysWrite = "ok"

\* C4: whatever subset of the present sources fails to embed, the other present
\* sources are embedded and handed to the upsert, which stores a point for each
\* of them when it succeeds; the record stays in the store and the call never
\* ends in an error caused by an embedding failure.
C4_SourceFailureIsolated ==
  \A id \in DOMAIN ingests :
    LET call == ingests[id]
        kept == PresentSources(call.payload) \ call.failing
    IN (call.jobId # 0 /\ call.pc \notin {"jobCreate", "generate"}) =>
         /\ DOMAIN call.embeddings = kept
         /\ \A s \in kept : call.embeddings[s] = Embed(SourceText(call.payload, s))
         /\ (kept # {} /\ call.pc \in {"jobSave", "jobFail", "done"}) => call.upsert # "none"
         /\ call.upsert = "ok" => \A s \in kept : PointId(id, s) \in DOMAIN index
         /\ id \in DOMAIN movies
         /\ call.error \in {NoMessage, JobSaveError}
         /\ call.result = "error" => call.error = JobSaveError

\* two of three sources failed and the remaining one was upserted
C4_Witness ==
  \E id \in DOMAIN ingests :
    /\ ingests[id].pc = "done"
    /\ Cardinality(ingests[id].failing) = 2
    /\ ingests[id].upsert = "ok"
    /\ ingests[id].result = "accepted"

\* C5: a persisted job only moves processing -> completed or processing ->
\* failed; completed and failed jobs never change again; a failed job carries an
\* error message; a job keeps its record and a new job starts in processing
\* for a record no earlier job belongs to.
C5_JobLifecycle ==
  [][/\ Len(jobs') >= Len(jobs)
     /\ \A j \in 1..Len(jobs) :
          /\ jobs'[j].movieId = jobs[j].movieId
          /\ jobs[j].status \in {"completed", "failed"} => jobs'[j] = jobs[j]
          /\ jobs'[j] # jobs[j] =>
               /\ jobs[j].status = "processing"
               /\ jobs'[j].status \in {"completed", "failed"}
               /\ jobs'[j].status = "failed" => jobs'[j].errorMessage # NoMessage
     /\ \A j \in (Len(jobs) + 1)..Len(jobs') :
          /\ jobs'[j].status = "processing"
          /\ \A k \in 1..(j - 1) : jobs'[k].movieId # jobs'[j].movieId]_vars

\* one job ended failed and another completed
C5_Witness ==
  /\ \E j \in 1..Len(jobs) : jobs[j].status = "failed" /\ jobs[j].errorMessage # NoMessage
  /\ \E j \in 1..Len(jobs) : jobs[j].status = "completed"

\* C6 (as claimed): an ended ingest call that created its job has left it
\* completed when it returned and failed, with the captured message, when it
\* re-raised; the job is never still processing.
C6_JobTerminalAtEnd ==
  \A id \in DOMAIN ingests :
    LET call == ingests[id]
    IN (call.pc = "done" /\ call.jobId # 0) =>
         /\ call.result = "accepted" => JobOf(call).status = "completed"
         /\ call.result = "error" =>
              /\ JobOf(call).status = "failed"
              /\ JobOf(call).errorMessage = call.error

\* C6 (amended): the same, unless the job.save() of the failure path was itself
\* rejected; then the call re-raises and the job is still processing.
C6_JobTerminalUnlessSaveFails ==
  \A id \in DOMAIN ingests :
    LET call == ingests[id]
    IN (call.pc = "done" /\ call.jobId # 0) =>
         /\ call.result = "accepted" => JobOf(call).status = "completed"
         /\ (call.result = "error" /\ call.failSave = "ok") =>
              /\ JobOf(call).status = "failed"
              /\ JobOf(call).errorMessage = call.error
              /\ call.error # NoMessage
         /\ (call.result = "error" /\ call.failSave # "ok") =>
              /\ call.failSave = "failed"
              /\ JobOf(call).status = "processing"

\* an ingest that produced no vector returned normally with its job completed
C6_Witness ==
  \E id \in DOMAIN ingests :
    /\ ingests[id].pc = "done"
    /\ ingests[id].jobId # 0
    /\ DOMAIN ingests[id].embeddings = {}
    /\ ingests[id].result = "accepted"
    /\ JobOf(ingests[id]).status = "completed"

\* C7: when the upsert fails after embeddings were generated, the call writes
\* no embeddingKeys (the record keeps the empty keys it was created with) and
\* the record stays in the store.
C7_UpsertFailureKeepsRecord ==
  \A id \in DOMAIN ingests :
    ingests[id].upsert = "failed" =>
      /\ DOMAIN ingests[id].embeddings # {}
      /\ ingests[id].keysWrite = "none"
      /\ ingests[id].pc # "keys"
      /\ id \in DOMAIN movies
      /\ movies[id].embeddingKeys = EmptyObject
      /\ PointsOf(id) = {}

\* an ingest whose upsert failed has ended
C7_Witness ==
  \E id \in DOMAIN ingests :
    ingests[id].pc = "done" /\ ingests[id].upsert = "failed"

\* C8 (as claimed): when the upsert failed during an ingest, the record is
\* in the store and the job ends failed with an error message.
C8_UpsertFailureMarksJobFailed ==
  \A id \in DOMAIN ingests :
    (ingests[id].pc = "done" /\ ingests[id].upsert = "failed") =>
      /\ id \in DOMAIN movies
      /\ JobOf(ingests[id]).status = "failed"
      /\ JobOf(ingests[id]).errorMessage # NoMessage

\* C9 (as claimed): every ingest call that saved its record ends accepted.
C9_AlwaysAccepted ==
  \A id \in DOMAIN ingests :
    ingests[id].pc = "done" => ingests[id].result = "accepted"

\* C9 (amended): an ingest call that saved its record ends accepted whatever
\* happened to embedding generation, to the upsert and to the embeddingKeys
\* write; it ends in an error exactly when creating the job or saving the
\* completed job was rejected.
C9_AcceptedUnlessJobStoreFails ==
  \A id \in DOMAIN ingests :
    LET call == ingests[id]
    IN call.pc = "done" =>
         /\ call.result \in {"accepted", "error"}
         /\ call.result = "accepted" <=> call.error = NoMessage
         /\ call.error \in {NoMessage, JobCreateError, JobSaveError}
         /\ call.error = JobCreateError <=> call.jobId = 0
         /\ call.error = JobSaveError => JobOf(call).status # "completed"

\* an ingest whose upsert failed was accepted
C9_Witness ==
  \E id \in DOMAIN ingests :
    /\ ingests[id].pc = "done"
    /\ ingests[id].upsert = "failed"
    /\ ingests[id].result = "accepted"

\* C10 (as claimed): the re-embedding of an update that changed no embeddable
\* source stops at its first test: it generates no embedding, upserts nothing
\* and writes no embeddingKeys.
C10_NoReembedWithoutSourceChange ==
  \A t \in DOMAIN regens :
    ~regens[t].srcChanged => regens[t].pc = "lookup"

\* C11: an update is acknowledged, with the updated record, while its
\* re-embedding has not gone past its first step; no later step (a re-embedding
\* that succeeds, fails or is skipped included) changes what an update call
\* returned, and no update call ever ends in an error.
C11_UpdateAcknowledgedRegardless ==
  [][/\ \A t \in DOMAIN regens' : t \in DOMAIN acks' /\ acks'[t].status = "ok"
     /\ \A t \in DOMAIN acks : t \in DOMAIN acks' /\ acks'[t] = acks[t]
     /\ \A t \in DOMAIN acks' \ DOMAIN acks :
          /\ acks'[t] = UpdateAck(movies'[regens'[t].movieId])
          /\ regens'[t].pc = "lookup"]_vars

\* an update that set the plot was acknowledged and its re-embedding has ended
\* without storing a vector of the new plot
C11_Witness ==
  \E t \in DOMAIN acks :
    /\ t \notin DOMAIN regens
    /\ acks[t].status = "ok"
    /\ Has(acks[t].movie, "plot") /\ acks[t].movie.plot = <<"q">>
    /\ backend = "qdrant"
    /\ \A p \in DOMAIN index : index[p].vector # Embed(<<"q">>)

\* C12 (as claimed): on every backend, an upsert that the backend accepted
\* during a re-embedding leaves, under the id of each (record, source) pair,
\* the vector generated from the record's current text.
C12_ReingestOverwrites ==
  [][\A t \in DOMAIN regens :
       RegenUpsert(t, TRUE) =>
         \A s \in DOMAIN regens[t].embeddings :
           index'[PointId(regens[t].movieId, s)].vector = regens[t].embeddings[s]]_vars

\* C13 (as claimed): on every backend, semanticSearch returns an empty sequence
\* and raises no error when the collection does not exist or holds no point
\* (the backend itself being reachable).
C13_MissingOrEmptyGivesNoMatches ==
  (search.pc \in {"respond", "done"} /\ search.embedded = "ok"
     /\ search.backendOk
     /\ (~search.exists \/ DOMAIN index = {})) =>
    search.reply = Found(<<>>)

\* C14: for every list of matches the vector store returned, the merged result
\* holds each record of the store at most once, with the highest score among
\* its matches, ordered by non-increasing score; it is cut to the limit after
\* the merge: it has min(limit, number of records matched) entries and no
\* record left out scores higher than one that was kept.
C14_MergedByBestScore ==
  (search.pc \in {"respond", "done"} /\ search.reply.status = "ok") =>
    LET ms == search.reply.matches
        rs == search.results
        limit == EmbeddingLimit([handler |-> search.handler, params |-> search.params])
        live == {ms[i].payload.movieId : i \in 1..Len(ms)} \cap DOMAIN movies
        kept == {rs[i].movieId : i \in 1..Len(rs)}
        ScoresOf(id) == {ms[i].score : i \in {k \in 1..Len(ms) : ms[k].payload.movieId = id}}
        Best(id) == CHOOSE x \in ScoresOf(id) : \A y \in ScoresOf(id) : y <= x
    IN /\ \A i, j \in 1..Len(rs) : i # j => rs[i].movieId # rs[j].movieId
       /\ kept \subseteq live
       /\ \A i \in 1..Len(rs) : rs[i].score = Best(rs[i].movieId)
       /\ \A i \in 1..(Len(rs) - 1) : rs[i].score >= rs[i + 1].score
       /\ Len(rs) = IF limit < Cardinality(live) THEN limit ELSE Cardinality(live)
       /\ \A id \in live \ kept : \A i \in 1..Len(rs) : Best(id) <= rs[i].score

\* the matches [(1, 90), (2, 80), (1, 95)] were merged into 1 with 95, then 2
\* with 80
C14_Witness ==
  /\ search.pc = "respond"
  /\ Len(search.reply.matches) = 3
  /\ \A i \in 1..3 :
       /\ search.reply.matches[i].payload.movieId = <<1, 2, 1>>[i]
       /\ search.reply.matches[i].score = <<90, 80, 95>>[i]
  /\ search.results = <<[movieId |-> 1, score |-> 95], [movieId |-> 2, score |-> 80]>>

\* C15 (as claimed): the answer of a search with a query and limit L holds at
\* most L records, each of them satisfies every structured filter that was
\* supplied, and they are in the order of their vector-similarity ranking.
C15_QueryResultsPassFilters ==
  (search.pc = "done" /\ search.handler = "advanced" /\ search.embedded = "ok"
     /\ search.response.status = "ok") =>
    LET rs == search.response.results
        f == search.filters
        Bounded(doc, field, min, max) ==
          /\ Has(f, min) => Has(doc, field) /\ doc[field] >= f[min]
          /\ Has(f, max) => Has(doc, field) /\ doc[field] <= f[max]
        Passes(doc) ==
          /\ (Has(f, "genres") /\ f.genres # <<>>) =>
               \E i \in 1..Len(doc.genres), j \in 1..Len(f.genres) :
                 doc.genres[i] = f.genres[j]
          /\ Has(f, "director") =>
               Has(doc, "director")
                 /\ Contains(ToLowerCase(doc.director), ToLowerCase(f.director))
          /\ Bounded(doc, "rating", "minRating", "maxRating")
          /\ Bounded(doc, "releaseYear", "minYear", "maxYear")
        Rank(id) == CHOOSE k \in 1..Len(search.results) : search.results[k].movieId = id
    IN /\ Len(rs) <= search.limit
       /\ \A i \in 1..Len(rs) :
            /\ rs[i].movieId \in DOMAIN movies
            /\ Passes(movies[rs[i].movieId])
       /\ \A i, j \in 1..Len(rs) : i < j => Rank(rs[i].movieId) < Rank(rs[j].movieId)

\* C16 (as claimed): when the vector backend does not answer the query, a search
\* with a query is answered successfully, with no semantic result.
C16_BackendFailureGivesEmptyResults ==
  (search.pc = "done" /\ search.embedded = "ok" /\ ~search.backendOk) =>
    search.response = [status |-> "ok", results |-> <<>>]

\* C17: a search whose query could not be embedded ends in an error: the vector
\* store is not queried, no record is looked up and no result is answered.
C17_EmbeddingFailureFailsSearch ==
  (search.pc # "idle" /\ search.embedded = "failed") =>
    /\ search.pc = "done"
    /\ search.response = [status |-> "error", results |-> <<>>]
    /\ search.reply.status = "none"
    /\ search.results = <<>>

\* an advanced search with a query and a rating filter failed on its embedding
C17_Witness ==
  /\ search.pc = "done"
  /\ search.handler = "advanced"
  /\ search.embedded = "failed"
  /\ Has(search.filters, "minRating")

\* C18 (as claimed): a search by filters alone returns exactly the records that
\* satisfy every filter that was supplied (bounds inclusive, a bound of 0
\* included); a filter that was not supplied excludes nothing.  Stated for the
\* records that carry the attributes the supplied bounds are about.
C18_FilterIsConjunctionOfSupplied ==
  (search.pc = "done" /\ search.handler = "advanced" /\ search.embedded = "none") =>
    LET rs == search.response.results
        f == search.filters
        Bounded(doc, field, min, max) ==
          /\ Has(f, min) => Has(doc, field) /\ doc[field] >= f[min]
          /\ Has(f, max) => Has(doc, field) /\ doc[field] <= f[max]
        Passes(doc) ==
          /\ (Has(f, "genres") /\ f.genres # <<>>) =>
               \E i \in 1..Len(doc.genres), j \in 1..Len(f.genres) :
                 doc.genres[i] = f.genres[j]
          /\ Has(f, "director") =>
               Has(doc, "director")
                 /\ Contains(ToLowerCase(doc.director), ToLowerCase(f.director))
          /\ Bounded(doc, "rating", "minRating", "maxRating")
          /\ Bounded(doc, "releaseYear", "minYear", "maxYear")
        Rated(doc) ==
          /\ (Has(f, "minRating") \/ Has(f, "maxRating")) => Has(doc, "rating")
          /\ (Has(f, "minYear") \/ Has(f, "maxYear")) => Has(doc, "releaseYear")
    IN \A id \in DOMAIN movies :
         Rated(movies[id]) =>
           ((\E i \in 1..Len(rs) : rs[i].movieId = id) <=> Passes(movies[id]))

C20_ReturnedVectorIsValid ==
  (embed.pc = "done" /\ embed.out.status = "ok") =>
    /\ Len(embed.out.vector) = VectorDimension
    /\ \A i \in DOMAIN embed.out.vector : ~embed.out.vector[i].nan

\* C21: a call to the remote-inference provider makes a bounded number of
\* requests: a reply is retried only when it is a warm-up failure (HTTP 503 or
\* a "loading" error body) and fewer than the configured retry count of
\* retries were made, after a wait of the provider's estimated time or the
\* fixed default; any other failure, and a warm-up failure once the retries
\* are used up, ends the call with the error.
C21_BoundedRetriesThenError ==
  [][\A reply \in HfReplies : HfPost(reply) =>
       LET retried == embed'.pc = "wait"
           made == Len(embed.waits)
       IN /\ embed'.posts <= DefaultRetries + 1
          /\ embed'.gets <= DefaultRetries + 1
          /\ retried <=> (Transient(reply) /\ made < DefaultRetries)
          /\ retried =>
               /\ Len(embed'.waits) = made + 1
               /\ embed'.waits[made + 1] =
                    IF reply.kind = "error body" /\ reply.estimated_time > 0
                    THEN reply.estimated_time * 1000 ELSE 10000
          /\ (~retried /\ reply.kind # "vector") =>
               embed'.pc = "done" /\ embed'.out.status = "error"]_vars

\* the model was still loading at every attempt: the call has ended with the
\* error after the first request and all the retries
C21_Witness ==
  /\ embed.pc = "done"
  /\ Has(embed, "posts")
  /\ embed.posts = DefaultRetries + 1
  /\ Len(embed.waits) = DefaultRetries
  /\ embed.out.status = "error"

\* C22: the local embedding model is initialized once per configured model
\* name, also when several callers enter before the first initialization has
\* finished: no second pipeline is ever loaded for the same model name.
C22_InitializedOnce == pipeline.loads <= 1

\* C23: a search with a query and result limit L asks the vector store for
\* exactly 2 * L nearest neighbours.
C23_AsksTwiceTheLimit ==
  (search.pc \in {"respond", "done"} /\ search.neighborsAsked # 0) =>
    search.neighborsAsked = 2 * search.limit

\* C24: of every dedupe group of more than one record exactly one survives a
\* run: the one with the highest rating (a missing rating counts as the lowest
\* rating, 0); among equal ratings one that has a stored poster; among those
\* still tied the most recently created.  All other members are deleted.
C24_SurvivorByRatingPosterRecency ==
  [][DedupeMovies =>
       \A i \in DOMAIN movies :
         LET group == {j \in DOMAIN movies : GroupKey(movies[j]) = GroupKey(movies[i])}
             Rating(j) == IF Has(movies[j], "rating") THEN movies[j].rating ELSE 0
             Poster(j) == Has(movies[j], "posterGridFSId")
             Beats(a, b) ==
               \/ Rating(a) > Rating(b)
               \/ /\ Rating(a) = Rating(b)
                  /\ \/ Poster(a) /\ ~Poster(b)
                     \/ /\ Poster(a) = Poster(b)
                        /\ movies[a].createdAt > movies[b].createdAt
         IN Cardinality(group) > 1 =>
              \E s \in group :
                /\ group \cap DOMAIN movies' = {s}
                /\ \A o \in group \ {s} : Beats(s, o)]_vars

\* two unrated records "m" (with a poster) and "M" (without, created later)
\* were one group: the older one with the poster is what is left
C24_Witness ==
  /\ nextId = 3
  /\ DOMAIN movies = {1}
  /\ movies[1].title = <<"m">>
  /\ ~Has(movies[1], "rating")
  /\ HasPoster(movies[1])

\* C25: a duplicate's poster reference is moved to the survivor exactly when,
\* at that moment, the survivor has none and the duplicate has one; so the
\* survivor's reference is set at most once: a survivor that had a poster keeps
\* it, and one that had none ends with the poster of the first duplicate (in
\* the order of the run) that has one.
C25_PosterMigratedOnce ==
  [][DedupeMovies =>
       \A s \in DOMAIN movies' :
         LET group == {j \in DOMAIN movies : GroupKey(movies[j]) = GroupKey(movies[s])}
             donors == {j \in group \ {s} : HasPoster(movies[j])}
         IN IF HasPoster(movies[s])
            THEN movies'[s].posterGridFSId = movies[s].posterGridFSId
            ELSE IF donors = {} THEN ~HasPoster(movies'[s])
            ELSE /\ HasPoster(movies'[s])
                 /\ movies'[s].posterGridFSId =
                      movies[MinOf(donors)].posterGridFSId]_vars

\* C26: for each candidate backfillMissingPosters fetches the original poster
\* URL, then the size variants, in that order, and stops at the first fetch
\* that succeeds; a candidate whose every fetch fails, or whose image cannot be
\* stored, is counted as failed and the run goes on: every candidate is
\* handled and counted, whatever happens to the others.
C26_BackfillTriesInOrderAndContinues ==
  backfill.pc # "idle" =>
    /\ \A k \in 1..Len(backfill.tried) :
         LET posterUrl == backfill.candidates[backfill.i].posterUrl
             variants == << posterUrl,
                            ReplaceFirst(posterUrl, <<"/w500", "/">>,
                                         <<"/original", "/">>),
                            ReplaceFirst(posterUrl, <<"/w500">>, <<"/original">>) >>
         IN /\ k <= 3
            /\ backfill.tried[k].url = variants[k]
            /\ backfill.tried[k].ok => k = Len(backfill.tried)
    /\ backfill.pc \in {"upload", "save"} =>
         /\ backfill.tried # <<>>
         /\ backfill.tried[Len(backfill.tried)].ok
    /\ Len(backfill.log) = backfill.i - 1
    /\ backfill.updated + backfill.failed = Len(backfill.log)
    /\ \A k \in 1..Len(backfill.log) :
         /\ backfill.log[k].movieId = backfill.candidates[k].movieId
         /\ backfill.log[k].attempts >= 1
         /\ backfill.log[k].outcome = "updated" => backfill.log[k].fetched
         /\ ~backfill.log[k].fetched =>
              backfill.log[k].outcome = "failed" /\ backfill.log[k].attempts = 3
         /\ backfill.log[k].outcome = "updated" =>
              HasPoster(movies[backfill.log[k].movieId])
    /\ backfill.failed =
         Cardinality({k \in 1..Len(backfill.log) : backfill.log[k].outcome = "failed"})
    /\ backfill.pc = "done" => Len(backfill.log) = Len(backfill.candidates)

\* the first candidate failed on all three URLs and the run has gone on to
\* give the second one its poster
C26_Witness ==
  /\ backfill.pc = "done"
  /\ Len(backfill.candidates) = 2
  /\ backfill.log[1].outcome = "failed"
  /\ backfill.log[1].attempts = 3
  /\ backfill.log[2].outcome = "updated"

\* C27: with AUTO_IMPORT_MOVIES enabled the server still starts listening
\* after the startup import has finished, whether it succeeded or failed: the
\* import never ends the process.
C27_ImportDoesNotStopServer ==
  (server.pc # "idle" /\ server.autoImport /\ server.imported # "none") =>
    server.pc # "exited"

\* C28: after several updates of one record, once all their background
\* re-embeddings have completed, the vectors the index holds for the record
\* are the ones generated from the record as the latest update left it (on a
\* backend whose upsert replaces the points stored under the same ids).
C28_LatestUpdateWins ==
  (updates >= 2 /\ regens = EmptyObject /\ backend # "chroma") =>
    \A source \in PresentSources(movies[1]) :
      PointId(1, source) \in DOMAIN index =>
        index[PointId(1, source)].vector =
          generateMovieEmbeddings(movies[1], {})[source]

\* C29: a semantic search never returns a record that is not in the record
\* store when the search reads the records: a record removed by deleteMovie or
\* dedupeMovies is left out, also when the vector index still returns points
\* that carry its id.
C29_RemovedRecordsLeftOut ==
  [][/\ (search.pc = "vector" /\ search'.pc = "respond") =>
          \A i \in DOMAIN search'.results :
            search'.results[i].movieId \in DOMAIN movies'
     /\ (search.pc = "respond" /\ search'.pc = "done"
           /\ search.handler = "advanced") =>
          \A i \in DOMAIN search'.response.results :
            search'.response.results[i].movieId \in DOMAIN movies']_vars

\* the index has returned a point of a removed record next to one of a
\* record that is there: the results hold the second and not the first
C29_Witness ==
  /\ search.pc = "respond"
  /\ \E i \in DOMAIN search.reply.matches :
       search.reply.matches[i].payload.movieId \notin DOMAIN movies
  /\ search.results # <<>>
  /\ \A i \in DOMAIN search.results : search.results[i].movieId \in DOMAIN movies

\* C30: once no re-embedding is in flight, every point of the vector index
\* whose payload names an existing record is listed in that record's
\* embeddingKeys: no point is left behind for a source that a re-embedding no
\* longer produced.
C30_NoPointOutsideEmbeddingKeys ==
  regens = EmptyObject =>
    \A id \in DOMAIN movies : \A p \in DOMAIN index :
      index[p].movieId = id =>
        \E source \in DOMAIN movies[id].embeddingKeys :
          movies[id].embeddingKeys[source] = p

====
